---- MODULE Spec2Model ----
(***************************************************************************)
(* A model of cerebro: the change-trigger engine (src/src/triggers.rs),    *)
(* the battery, brightness and trash samplers (src/src/modules/*.rs), the  *)
(* worker handle (src/src/modules/module.rs) and the FUSE adapter with its *)
(* tree of entries (src/src/filesystem.rs).                                *)
(*                                                                         *)
(* Texts are TLA+ strings; TLC evaluates Len, SubSeq and \o on them, so a  *)
(* text is read character by character as the code reads it.               *)
(***************************************************************************)
EXTENDS Integers, Sequences, FiniteSets, TLC

VARIABLES
    triggers,     \* Vec<Trigger> loaded at startup, immutable afterwards
    battery,      \* BatteryBackend.data
    hist,         \* history: the values battery.percent has taken, oldest first
    fired,        \* history: per rule, how often execute() ran for a percent event
    dispatched,   \* the find_all_and_execute calls of the last step, in order
    config,       \* Config.modules: module name -> ModuleConfig (absent: no key)
    root,         \* FsBackend.root
    inode_index,  \* INODE_INDEX
    brightness,   \* BrightnessBackend: data and fs_entries
    sysfs,        \* the backlight devices the probe currently reports
    trash,        \* TrashBackend.data and the number of files in the trash
    threads,      \* module name -> module::Thread plus the liveness of its worker
    events,       \* the event bus: ModuleUpdated names in flight, oldest first
    mounted,      \* whether Filesystem::init has run
    aborted,      \* a callback panicked: the process is gone
    grafting,     \* <<name>> while the event thread, holding the backend
                  \* mutex, is between unregistering and registering name
    req,          \* the last filesystem callback and its arguments
    reply,        \* what that callback replied
    calls,        \* the module accessors that callback invoked, in order
    execution,    \* one find_all_and_execute call, piece by piece
    sampler,      \* the module whose Thread is driven through its interface
    workers,      \* the workers that Thread has spawned, oldest first
    caller,       \* the thread that calls stop, start or register_module
    cpu,          \* CpuBackend: its configuration, lists and entries
    callback      \* one Fs::read of a file of the module, lock by lock

trigger_vars == <<triggers, battery, hist, fired, dispatched>>
fs_vars == <<config, root, inode_index, brightness, sysfs, trash, threads,
             events, mounted, aborted, grafting, req, reply, calls>>
component_vars == <<execution, sampler, workers, caller, cpu, callback>>
vars == <<triggers, battery, hist, fired, dispatched, config, root,
          inode_index, brightness, sysfs, trash, threads, events, mounted,
          aborted, grafting, req, reply, calls, execution, sampler, workers,
          caller, cpu, callback>>

(***************************************************************************)
(* Texts                                                                   *)
(***************************************************************************)
Char(s, i) == SubSeq(s, i, i)

Digits == {"0", "1", "2", "3", "4", "5", "6", "7", "8", "9"}

DigitValue(c) ==
    CASE c = "0" -> 0 [] c = "1" -> 1 [] c = "2" -> 2 [] c = "3" -> 3
      [] c = "4" -> 4 [] c = "5" -> 5 [] c = "6" -> 6 [] c = "7" -> 7
      [] c = "8" -> 8 [] c = "9" -> 9

DigitText(d) ==
    CASE d = 0 -> "0" [] d = 1 -> "1" [] d = 2 -> "2" [] d = 3 -> "3"
      [] d = 4 -> "4" [] d = 5 -> "5" [] d = 6 -> "6" [] d = 7 -> "7"
      [] d = 8 -> "8" [] d = 9 -> "9"

\* n.to_string() / format!("{}", n) for an unsigned n
RECURSIVE to_string(_)
to_string(n) ==
    IF n < 10 THEN DigitText(n)
    ELSE to_string(n \div 10) \o DigitText(n % 10)

\* format!("{:0>2}", n): right-aligned in a field of two, padded with '0'
pad2(n) == IF n < 10 THEN "0" \o to_string(n) ELSE to_string(n)

(***************************************************************************)
(* str::parse::<i64>(): an optional sign, then one digit or more, folded   *)
(* left to right. Every text of this model has fewer than ten digits, so   *)
(* the overflow error of the real parser is out of reach and not modelled. *)
(***************************************************************************)
ParseErr == [ok |-> FALSE, v |-> 0]

RECURSIVE parse_digits(_, _, _, _)
parse_digits(s, i, acc, negative) ==
    IF i > Len(s) THEN [ok |-> TRUE, v |-> acc]
    ELSE IF Char(s, i) \notin Digits THEN ParseErr
    ELSE parse_digits(s, i + 1,
                      IF negative THEN acc * 10 - DigitValue(Char(s, i))
                                  ELSE acc * 10 + DigitValue(Char(s, i)),
                      negative)

parse_i64(s) ==
    IF Len(s) = 0 THEN ParseErr
    ELSE IF Char(s, 1) \in {"+", "-"}
         THEN IF Len(s) = 1 THEN ParseErr
              ELSE parse_digits(s, 2, 0, Char(s, 1) = "-")
         ELSE parse_digits(s, 1, 0, FALSE)

(***************************************************************************)
(* regex::Regex for the patterns this model uses: literal characters, '.'  *)
(* (any character) and a postfix '*' on one character. is_match searches  *)
(* anywhere in the text (no implicit anchors). A pattern whose '*' has     *)
(* nothing to repeat does not compile.                                     *)
(***************************************************************************)
regex_new_ok(re) ==
    \A i \in 1..Len(re) :
        Char(re, i) = "*" => (i > 1 /\ Char(re, i - 1) # "*")

atom_matches(a, c) == a = "." \/ a = c

RECURSIVE match_here(_, _, _, _)
match_here(re, i, text, j) ==
    IF i > Len(re) THEN TRUE
    ELSE IF i < Len(re) /\ Char(re, i + 1) = "*"
         THEN \E k \in j..(Len(text) + 1) :
                  /\ \A m \in j..(k - 1) : atom_matches(Char(re, i), Char(text, m))
                  /\ match_here(re, i + 2, text, k)
         ELSE /\ j <= Len(text)
              /\ atom_matches(Char(re, i), Char(text, j))
              /\ match_here(re, i + 1, text, j + 1)

is_match(re, text) == \E j \in 1..(Len(text) + 1) : match_here(re, 1, text, j)

(***************************************************************************)
(* triggers.rs                                                             *)
(***************************************************************************)
Trigger_new(kind, path, operator, value_to_compare, command) ==
    [kind |-> CASE kind = "C" -> "Create"
                [] kind = "D" -> "Delete"
                [] kind = "U" -> "Update"
                [] OTHER -> "Invalid",
     path |-> path,
     operator |-> CASE operator = "*" -> "None"
                    [] operator = "<" -> "LowerThan"
                    [] operator = ">" -> "GreaterThan"
                    [] operator = "!=" -> "Different"
                    [] operator = "==" -> "Equal"
                    [] OTHER -> "None",
     value_to_compare |-> value_to_compare,
     command |-> command]

\* A faulty variant of matches: the path is not tried as a pattern on the
\* trigger's text.
matches_one_way(trigger, kind, path) ==
    IF trigger.kind # kind THEN FALSE
    ELSE IF ~regex_new_ok(trigger.path) THEN FALSE
    ELSE is_match(trigger.path, path)

\* Trigger::matches
matches(trigger, kind, path) ==
    IF trigger.kind # kind THEN FALSE
    ELSE IF ~regex_new_ok(trigger.path) THEN FALSE
    ELSE IF is_match(trigger.path, path) THEN TRUE
    ELSE IF ~regex_new_ok(path) THEN FALSE
    ELSE is_match(path, trigger.path)

\* A faulty variant of lower_than_passes: a new value equal to the threshold passes.
lower_than_passes_at_threshold(value_to_compare, old_value, new_value) ==
    LET old_value_i64 == parse_i64(old_value)
        threshold_i64 == parse_i64(value_to_compare)
        new_value_i64 == parse_i64(new_value)
    IN  /\ old_value_i64.ok
        /\ threshold_i64.ok
        /\ ~(old_value_i64.v < threshold_i64.v)
        /\ new_value_i64.ok
        /\ ~(new_value_i64.v > threshold_i64.v)

\* The LowerThan block of find_all_and_execute: TRUE when no `continue` is taken.
lower_than_passes(value_to_compare, old_value, new_value) ==
    LET old_value_i64 == parse_i64(old_value)
        threshold_i64 == parse_i64(value_to_compare)
        new_value_i64 == parse_i64(new_value)
    IN  /\ old_value_i64.ok
        /\ threshold_i64.ok
        /\ ~(old_value_i64.v < threshold_i64.v)
        /\ new_value_i64.ok
        /\ ~(new_value_i64.v > threshold_i64.v)
        /\ ~(new_value_i64.v = threshold_i64.v)

\* A faulty variant of greater_than_passes: level-triggered, the old value is not compared.
greater_than_passes_by_level(value_to_compare, old_value, new_value) ==
    LET old_value_i64 == parse_i64(old_value)
        threshold_i64 == parse_i64(value_to_compare)
        new_value_i64 == parse_i64(new_value)
    IN  /\ old_value_i64.ok
        /\ threshold_i64.ok
        /\ new_value_i64.ok
        /\ ~(new_value_i64.v < threshold_i64.v)
        /\ ~(new_value_i64.v = threshold_i64.v)

\* The GreaterThan block of find_all_and_execute.
greater_than_passes(value_to_compare, old_value, new_value) ==
    LET old_value_i64 == parse_i64(old_value)
        threshold_i64 == parse_i64(value_to_compare)
        new_value_i64 == parse_i64(new_value)
    IN  /\ old_value_i64.ok
        /\ threshold_i64.ok
        /\ ~(old_value_i64.v > threshold_i64.v)
        /\ new_value_i64.ok
        /\ ~(new_value_i64.v < threshold_i64.v)
        /\ ~(new_value_i64.v = threshold_i64.v)

\* The operator checks of find_all_and_execute for one path-matching trigger.
operator_passes(trigger, old_value, new_value) ==
    /\ ~(trigger.operator = "Equal" /\ new_value # trigger.value_to_compare)
    /\ ~(trigger.operator = "Different" /\ new_value = trigger.value_to_compare)
    /\ (trigger.operator = "LowerThan" =>
            lower_than_passes(trigger.value_to_compare, old_value, new_value))
    /\ (trigger.operator = "GreaterThan" =>
            greater_than_passes(trigger.value_to_compare, old_value, new_value))

\* find_all_and_execute: the indexes of the triggers that pass the tests, in
\* the order of the loop; execute() is called on each of them in turn, as long
\* as none of the calls panics (ExecuteSpawn).
find_all_and_execute(trigs, kind, module, name, old_value, new_value) ==
    LET path == "/" \o module \o "/" \o name
        RECURSIVE walk(_)
        walk(i) ==
            IF i > Len(trigs) THEN <<>>
            ELSE IF /\ matches(trigs[i], kind, path)
                    /\ operator_passes(trigs[i], old_value, new_value)
                 THEN <<i>> \o walk(i + 1)
                 ELSE walk(i + 1)
    IN  walk(1)

\* One call of find_all_and_execute, as the steps below record it.
Dispatch(trigs, kind, module, name, old_value, new_value) ==
    [kind |-> kind, module |-> module, name |-> name,
     old_value |-> old_value, new_value |-> new_value,
     executed |-> find_all_and_execute(trigs, kind, module, name,
                                       old_value, new_value)]

(***************************************************************************)
(* modules/battery.rs                                                      *)
(***************************************************************************)
BATTERY_MODULE_NAME == "battery"
VALUE_FALSE == "false"
VALUE_TRUE == "true"
VALUE_UNKNOWN == "?"
ENTRY_PERCENT == "percent"
ENTRY_PLUGGED == "plugged"
ENTRY_TIME_REMAINING == "time_remaining"

BatteryData_new ==
    [plugged |-> VALUE_UNKNOWN, percent |-> VALUE_UNKNOWN,
     time_remaining |-> VALUE_UNKNOWN]

\* A faulty variant of battery_percent_step: old_value is read after the assignment.
battery_percent_step_old_after_store(data, trigs, percent) ==
    IF percent # data.percent
    THEN [data |-> [data EXCEPT !.percent = percent],
          events |-> <<Dispatch(trigs, "Update", BATTERY_MODULE_NAME,
                                ENTRY_PERCENT, percent, percent)>>]
    ELSE [data |-> data, events |-> <<>>]

\* A faulty variant of battery_percent_step: a change to the placeholder is
\* stored without an event.
battery_percent_step_silent_unknown(data, trigs, percent) ==
    IF percent # data.percent
    THEN [data |-> [data EXCEPT !.percent = percent],
          events |-> IF percent = VALUE_UNKNOWN THEN <<>>
                     ELSE <<Dispatch(trigs, "Update", BATTERY_MODULE_NAME,
                                     ENTRY_PERCENT, data.percent, percent)>>]
    ELSE [data |-> data, events |-> <<>>]

\* BatteryBackend::update, the block `if percent != self.data.percent`.
battery_percent_step(data, trigs, percent) ==
    IF percent # data.percent
    THEN [data |-> [data EXCEPT !.percent = percent],
          events |-> <<Dispatch(trigs, "Update", BATTERY_MODULE_NAME,
                                ENTRY_PERCENT, data.percent, percent)>>]
    ELSE [data |-> data, events |-> <<>>]

\* BatteryBackend::update. on_ac_power is "OkTrue", "OkFalse" or "Err";
\* battery_life is [ok, percent, time]: percent the u8 of
\* ceil(remaining_capacity * 100), time the remaining seconds.
BatteryBackend_update(data, trigs, on_ac_power, battery_life) ==
    LET plugged == CASE on_ac_power = "OkTrue" -> VALUE_TRUE
                     [] on_ac_power = "OkFalse" -> VALUE_FALSE
                     [] OTHER -> VALUE_UNKNOWN
        d1 == IF plugged # data.plugged
              THEN [data EXCEPT !.plugged = plugged] ELSE data
        e1 == IF plugged # data.plugged
              THEN <<Dispatch(trigs, "Update", BATTERY_MODULE_NAME,
                              ENTRY_PLUGGED, data.plugged, plugged)>>
              ELSE <<>>
        percent == IF battery_life.ok
                   THEN to_string(battery_life.percent) ELSE VALUE_UNKNOWN
        time_remaining ==
            IF battery_life.ok
            THEN pad2(battery_life.time \div 3600) \o "h"
                     \o pad2(battery_life.time % 60) \o "m"
            ELSE VALUE_UNKNOWN
        s2 == battery_percent_step(d1, trigs, percent)
        d3 == IF time_remaining # s2.data.time_remaining
              THEN [s2.data EXCEPT !.time_remaining = time_remaining]
              ELSE s2.data
        e3 == IF time_remaining # s2.data.time_remaining
              THEN <<Dispatch(trigs, "Update", BATTERY_MODULE_NAME,
                              ENTRY_TIME_REMAINING,
                              s2.data.time_remaining, time_remaining)>>
              ELSE <<>>
    IN  [data |-> d3, events |-> e1 \o s2.events \o e3, status |-> "Ok"]

(***************************************************************************)
(* filesystem.rs: entries                                                  *)
(***************************************************************************)
INODE_INVALID == 0
INODE_ROOT == 1
ENTRY_JSON == "json"
ENTRY_SHELL == "shell"
ENOENT == "ENOENT"

\* FsEntry::new. The samplers pass Mode::ReadOnly / Mode::WriteOnly where the
\* constructor takes write_only: WriteOnly is write_only = TRUE.
FsEntry_new(inode, file_type, name, write_only, fs_entries) ==
    [inode |-> inode, file_type |-> file_type, name |-> name,
     write_only |-> write_only, fs_entries |-> fs_entries]

\* A faulty variant of create_inode: the counter is not advanced.
create_inode_without_increment(index) == index

\* A faulty variant of create_inode: the counter is read at its initial value.
create_inode_restarted(index) == INODE_ROOT + 1

\* FsEntry::create_inode, on the counter's value: the value returned (and stored).
create_inode(index) == index + 1

\* What the n-th of n successive calls of create_inode returns, index being
\* the counter before the first; the counter itself for n = 0.
RECURSIVE nth_inode(_, _)
nth_inode(index, n) ==
    IF n = 0 THEN index ELSE create_inode(nth_inode(index, n - 1))

\* An Option<&FsEntry> is <<>> (None) or <<entry>> (Some).
RECURSIVE find(_, _), find_in_children(_, _, _)
\* FsEntry::find
find(self, inode) ==
    IF self.inode = inode THEN <<self>>
    ELSE find_in_children(self.fs_entries, 1, inode)

\* The `for entry in self.fs_entries.iter()` loop of FsEntry::find.
find_in_children(entries, i, inode) ==
    IF i > Len(entries) THEN <<>>
    ELSE LET found == find(entries[i], inode)
         IN  IF found # <<>> THEN found
             ELSE find_in_children(entries, i + 1, inode)

\* Every entry of a subtree, in pre-order.
RECURSIVE Flatten(_), FlattenAll(_, _)
Flatten(entry) == <<entry>> \o FlattenAll(entry.fs_entries, 1)

FlattenAll(entries, i) ==
    IF i > Len(entries) THEN <<>>
    ELSE Flatten(entries[i]) \o FlattenAll(entries, i + 1)

SeqRange(q) == {q[i] : i \in 1..Len(q)}

(***************************************************************************)
(* modules/cpu.rs: the entries CpuBackend::new builds and the sampler. In  *)
(* the filesystem specification the configurations that enable cpu give   *)
(* it no timeout, so Cpu::start grafts these entries and Thread::start     *)
(* leaves before it spawns the worker; the sampler runs in the worker      *)
(* specification. The constructor takes inodes 2..9.                       *)
(***************************************************************************)
CPU_MODULE_NAME == "cpu"

Cpu_fs_entries ==
    <<FsEntry_new(2, "Directory", "logical", FALSE,
        <<FsEntry_new(3, "Directory", "averrage", FALSE,
            <<FsEntry_new(4, "RegularFile", "usage_percent", FALSE, <<>>)>>),
          FsEntry_new(5, "RegularFile", "count", FALSE, <<>>),
          FsEntry_new(6, "RegularFile", "timestamp", FALSE, <<>>)>>),
      FsEntry_new(7, "Directory", "physical", FALSE,
        <<FsEntry_new(8, "RegularFile", "count", FALSE, <<>>),
          FsEntry_new(9, "RegularFile", "timestamp", FALSE, <<>>)>>)>>

\* Cpu::value before the first sample: the four counters are "0".
Cpu_value(inode) == IF inode \in {5, 6, 8, 9} THEN "0" ELSE VALUE_UNKNOWN

\* A CpuBackend is [temperature, monitoring, logical_list, physical_list,
\* logical_fs_entries, physical_fs_entries]: whether config.temperature is
\* Some (with its device and pattern), whether cpu_stats is Some, the
\* lengths of the two data lists (the loads and temperatures themselves are
\* left out), and the two lists of entries.
CpuBackend_new ==
    [temperature |-> FALSE, monitoring |-> FALSE, logical_list |-> 0,
     physical_list |-> 0, logical_fs_entries |-> <<>>,
     physical_fs_entries |-> <<>>]

\* The entries rebuild_logical_filesystem and update_physical build: per
\* unit a directory named by its index from 0, with one file; each takes
\* the next inode.
Cpu_unit_entries(count, leaf, index) ==
    [i \in 1..count |->
        FsEntry_new(nth_inode(index, 2 * i - 1), "Directory",
                    to_string(i - 1), FALSE,
            <<FsEntry_new(nth_inode(index, 2 * i), "RegularFile", leaf,
                          FALSE, <<>>)>>)]

\* CpuBackend::update_logical on a probe [cpus, temperatures, cpu_load_ok]:
\* [ok, status, cpu, inode_index]. Without a measurement in progress it
\* only starts one. With one, a number of cpus other than the length of
\* the list is Changed: the entries and the list are rebuilt; then the
\* timestamp is taken and a new measurement started, whose failure is
\* returned as the error of the whole call.
update_logical(b, probe, index) ==
    IF ~b.monitoring
    THEN [ok |-> probe.cpu_load_ok, status |-> "Ok",
          cpu |-> [b EXCEPT !.monitoring = probe.cpu_load_ok],
          inode_index |-> index]
    ELSE LET changed == b.logical_list # probe.cpus
             rebuilt ==
                 IF changed
                 THEN [b EXCEPT
                          !.logical_fs_entries =
                              Cpu_unit_entries(probe.cpus, "usage_percent",
                                               index),
                          !.logical_list = probe.cpus]
                 ELSE b
         IN  [ok |-> probe.cpu_load_ok,
              status |-> IF changed THEN "Changed" ELSE "Ok",
              cpu |-> rebuilt,
              inode_index |-> IF changed THEN nth_inode(index, 2 * probe.cpus)
                              ELSE index]

\* CpuBackend::update_physical: an error without temperature configuration;
\* with one, a number of temperatures other than the length of the list is
\* Changed, and the entries are rebuilt.
update_physical(b, probe, index) ==
    IF ~b.temperature
    THEN [ok |-> FALSE, status |-> "Ok", cpu |-> b, inode_index |-> index]
    ELSE LET changed == b.physical_list # probe.temperatures
         IN  [ok |-> TRUE,
              status |-> IF changed THEN "Changed" ELSE "Ok",
              cpu |-> IF changed
                      THEN [b EXCEPT
                               !.physical_list = probe.temperatures,
                               !.physical_fs_entries =
                                   Cpu_unit_entries(probe.temperatures,
                                                    "temperature", index)]
                      ELSE b,
              inode_index |-> IF changed
                              THEN nth_inode(index, 2 * probe.temperatures)
                              ELSE index]

\* CpuBackend::update: [status, cpu, inode_index]. Each of the two calls
\* ends the function when it returns an error (the operator ?), whatever
\* the first one has changed and found; Thread::start takes the error for
\* Status::Error.
CpuBackend_update(b, probe, index) ==
    LET logical == update_logical(b, probe, index)
        physical == update_physical(logical.cpu, probe, logical.inode_index)
    IN  IF ~logical.ok
        THEN [status |-> "Error", cpu |-> logical.cpu,
              inode_index |-> logical.inode_index]
        ELSE IF ~physical.ok
        THEN [status |-> "Error", cpu |-> physical.cpu,
              inode_index |-> physical.inode_index]
        ELSE [status |-> IF "Changed" \in {logical.status, physical.status}
                         THEN "Changed" ELSE "Ok",
              cpu |-> physical.cpu,
              inode_index |-> physical.inode_index]

\* Cpu::fs_entries: the static entries with the logical and the physical
\* ones appended under the first and the second.
Cpu_module_fs_entries(b) ==
    <<[Cpu_fs_entries[1] EXCEPT !.fs_entries = @ \o b.logical_fs_entries],
      [Cpu_fs_entries[2] EXCEPT !.fs_entries = @ \o b.physical_fs_entries]>>

(***************************************************************************)
(* modules/battery.rs: the module                                          *)
(***************************************************************************)
\* Battery::new takes the next three inodes: plugged, percent, time_remaining.
Battery_inode_plugged == 10
Battery_inode_percent == 11
Battery_inode_time_remaining == 12

Battery_fs_entries ==
    <<FsEntry_new(Battery_inode_plugged, "RegularFile", ENTRY_PLUGGED, FALSE, <<>>),
      FsEntry_new(Battery_inode_percent, "RegularFile", ENTRY_PERCENT, FALSE, <<>>),
      FsEntry_new(Battery_inode_time_remaining, "RegularFile",
                  ENTRY_TIME_REMAINING, FALSE, <<>>)>>

\* Battery::value
Battery_value(data, inode) ==
    IF inode = Battery_inode_percent THEN data.percent
    ELSE IF inode = Battery_inode_plugged THEN data.plugged
    ELSE IF inode = Battery_inode_time_remaining THEN data.time_remaining
    ELSE VALUE_UNKNOWN

\* Battery::json: serde_json of BatteryData, fields in declaration order.
Battery_json(data) ==
    "{\"plugged\":\"" \o data.plugged \o "\",\"percent\":\"" \o data.percent
        \o "\",\"time_remaining\":\"" \o data.time_remaining \o "\"}"

\* Battery::shell
Battery_shell(data) ==
    "plugged=" \o data.plugged \o " percent=" \o data.percent
        \o " time_remaining=" \o data.time_remaining

(***************************************************************************)
(* modules/trash.rs                                                        *)
(***************************************************************************)
TRASH_MODULE_NAME == "trash"
ENTRY_COUNT == "count"
ENTRY_EMPTY == "empty"

\* Trash::new takes the next two inodes: count, empty.
Trash_inode_count == 13
Trash_inode_empty == 14

Trash_fs_entries ==
    <<FsEntry_new(Trash_inode_count, "RegularFile", ENTRY_COUNT, FALSE, <<>>),
      FsEntry_new(Trash_inode_empty, "RegularFile", ENTRY_EMPTY, TRUE, <<>>)>>

\* trash is [count: TrashData.count, files, info: what the directories
\* Trash/files and Trash/info hold]. A directory is the sequence of its
\* entries, an entry a plain file or a directory with its own entries.
TrashFile(name) == [name |-> name, is_dir |-> FALSE, contents |-> <<>>]
TrashDir(name, contents) ==
    [name |-> name, is_dir |-> TRUE, contents |-> contents]

Trash_new == [count |-> VALUE_UNKNOWN, files |-> <<>>, info |-> <<>>]

\* Trash::value
Trash_value(t, inode) ==
    IF inode = Trash_inode_count THEN t.count
    ELSE IF inode = Trash_inode_empty THEN ""
    ELSE VALUE_UNKNOWN

\* fs::remove_dir succeeds on an empty directory only.
remove_dir(entry) == entry.contents = <<>>

\* Trash::remove_dir_contents without the descent into directories.
remove_dir_contents_flat(dir) ==
    LET RECURSIVE loop(_)
        loop(rest) ==
            IF rest = <<>> THEN [ok |-> TRUE, dir |-> <<>>]
            ELSE IF Head(rest).is_dir /\ ~remove_dir(Head(rest))
            THEN [ok |-> FALSE, dir |-> rest]
            ELSE loop(Tail(rest))
    IN  loop(dir)

\* Trash::remove_dir_contents: [ok, dir], whether Ok(()) is returned and
\* what the directory holds afterwards. The entries are taken in turn: a
\* directory is emptied first and then removed, a file is removed; the first
\* error ends the loop, the entries not yet reached staying in place.
RECURSIVE remove_dir_contents(_)
remove_dir_contents(dir) ==
    IF dir = <<>> THEN [ok |-> TRUE, dir |-> <<>>]
    ELSE LET entry == Head(dir)
         IN  IF entry.is_dir
             THEN LET inner == remove_dir_contents(entry.contents)
                      emptied == [entry EXCEPT !.contents = inner.dir]
                  IN  IF ~inner.ok \/ ~remove_dir(emptied)
                      THEN [ok |-> FALSE, dir |-> <<emptied>> \o Tail(dir)]
                      ELSE remove_dir_contents(Tail(dir))
             ELSE remove_dir_contents(Tail(dir))

\* Trash::set_value: the trash after the write. An error of
\* remove_dir_contents is printed and the second directory is emptied all
\* the same.
Trash_set_value(t, inode, data) ==
    IF inode = Trash_inode_empty /\ data \in {"1", "1\n", "true", "true\n"}
    THEN [t EXCEPT !.files = remove_dir_contents(t.files).dir,
                   !.info = remove_dir_contents(t.info).dir]
    ELSE t

Trash_json(t) == "{\"count\":\"" \o t.count \o "\"}"

Trash_shell(t) == "count=" \o t.count

\* walkdir::WalkDir::new(dir).into_iter().count(): the directory itself and
\* everything below it.
RECURSIVE walkdir_count(_)
walkdir_count(dir) ==
    IF dir = <<>> THEN 1
    ELSE (IF Head(dir).is_dir THEN walkdir_count(Head(dir).contents) ELSE 1)
             + walkdir_count(Tail(dir))

\* TrashBackendProxy::update_count: walkdir counts the directory itself too.
update_count(t, trigs) ==
    LET count == to_string(walkdir_count(t.files) - 1)
    IN  IF count # t.count
        THEN [trash |-> [t EXCEPT !.count = count],
              events |-> <<Dispatch(trigs, "Update", TRASH_MODULE_NAME,
                                    ENTRY_COUNT, t.count, count)>>]
        ELSE [trash |-> t, events |-> <<>>]

(***************************************************************************)
(* modules/brightness.rs                                                   *)
(*                                                                         *)
(* brightness is [data, fs_entries, watching]: BrightnessBackend.data and  *)
(* .fs_entries, and whether the worker has entered the watch loop of       *)
(* BrightnessBackendProxy::update. sysfs is what /sys/class/backlight      *)
(* holds: per device its name and the contents of its three files.         *)
(***************************************************************************)
BRIGHTNESS_MODULE_NAME == "brightness"
ENTRY_VALUE == "value"
ENTRY_CURRENT_VALUE == "current_value"
ENTRY_MAX_VALUE == "max_value"

Brightness_new == [data |-> <<>>, fs_entries |-> <<>>, watching |-> FALSE]

\* String::replace("\n", "")
RECURSIVE strip_newlines(_)
strip_newlines(s) ==
    IF Len(s) = 0 THEN ""
    ELSE IF Char(s, 1) = "\n" THEN strip_newlines(SubSeq(s, 2, Len(s)))
    ELSE Char(s, 1) \o strip_newlines(SubSeq(s, 2, Len(s)))

\* BrightnessBackend::build_filesystem, the `Build data` loop.
build_data(devices) ==
    [i \in 1..Len(devices) |->
        [device |-> devices[i].name,
         value |-> strip_newlines(devices[i].brightness),
         current_value |-> strip_newlines(devices[i].actual_brightness),
         max_value |-> strip_newlines(devices[i].max_brightness)]]

\* BrightnessBackend::build_filesystem: [status, brightness, inode_index, events].
\* Each device takes four inodes: the directory first, then its three files.
build_filesystem(b, devices, index, trigs) ==
    IF b.fs_entries # <<>>
    THEN [status |-> "Ok", brightness |-> b, inode_index |-> index,
          events |-> <<>>]
    ELSE LET data == build_data(devices)
             base(i) == 4 * (i - 1)
             entries ==
                 [i \in 1..Len(data) |->
                     FsEntry_new(nth_inode(index, base(i) + 1), "Directory",
                                 data[i].device, FALSE,
                         <<FsEntry_new(nth_inode(index, base(i) + 2),
                                       "RegularFile", ENTRY_VALUE, FALSE, <<>>),
                           FsEntry_new(nth_inode(index, base(i) + 3),
                                       "RegularFile", ENTRY_CURRENT_VALUE,
                                       FALSE, <<>>),
                           FsEntry_new(nth_inode(index, base(i) + 4),
                                       "RegularFile", ENTRY_MAX_VALUE, FALSE,
                                       <<>>)>>)]
             created(i) ==
                 <<Dispatch(trigs, "Create", BRIGHTNESS_MODULE_NAME,
                            data[i].device \o "/" \o ENTRY_VALUE, "", ""),
                   Dispatch(trigs, "Create", BRIGHTNESS_MODULE_NAME,
                            data[i].device \o "/" \o ENTRY_CURRENT_VALUE, "", ""),
                   Dispatch(trigs, "Create", BRIGHTNESS_MODULE_NAME,
                            data[i].device \o "/" \o ENTRY_MAX_VALUE, "", "")>>
             RECURSIVE all_created(_)
             all_created(i) ==
                 IF i > Len(data) THEN <<>> ELSE created(i) \o all_created(i + 1)
         IN  [status |-> "Changed",
              brightness |-> [b EXCEPT !.data = data, !.fs_entries = entries],
              inode_index |-> nth_inode(index, 4 * Len(data)),
              events |-> all_created(1)]

\* Brightness::value
Brightness_value(b, inode) ==
    LET RECURSIVE scan(_)
        scan(d) ==
            IF d > Len(b.fs_entries) THEN VALUE_UNKNOWN
            ELSE LET device_entry == b.fs_entries[d]
                     hit == {k \in 1..Len(device_entry.fs_entries) :
                                device_entry.fs_entries[k].inode = inode}
                 IN  IF hit = {} THEN scan(d + 1)
                     ELSE LET entry == device_entry.fs_entries[CHOOSE k \in hit :
                                           \A o \in hit : k <= o]
                              found == {k \in 1..Len(b.data) :
                                           b.data[k].device = device_entry.name}
                          IN  IF found = {} THEN VALUE_UNKNOWN
                              ELSE LET data == b.data[CHOOSE k \in found :
                                                   \A o \in found : k <= o]
                                   IN  CASE entry.name = ENTRY_VALUE -> data.value
                                         [] entry.name = ENTRY_CURRENT_VALUE ->
                                                data.current_value
                                         [] entry.name = ENTRY_MAX_VALUE ->
                                                data.max_value
                                         [] OTHER -> VALUE_UNKNOWN
    IN  scan(1)

\* Brightness::json: serde_json of Vec<BrightnessData>
Brightness_json(b) ==
    LET item(d) ==
            "{\"device\":\"" \o d.device \o "\",\"value\":\"" \o d.value
                \o "\",\"current_value\":\"" \o d.current_value
                \o "\",\"max_value\":\"" \o d.max_value \o "\"}"
        RECURSIVE items(_)
        items(i) ==
            IF i > Len(b.data) THEN ""
            ELSE (IF i > 1 THEN "," ELSE "") \o item(b.data[i]) \o items(i + 1)
    IN  "[" \o items(1) \o "]"

\* Brightness::shell: the devices' texts follow one another without separator.
Brightness_shell(b) ==
    LET item(d) ==
            d.device \o "_brightness=" \o d.value \o " "
                \o d.device \o "_actual_brightness=" \o d.current_value \o " "
                \o d.device \o "_max_brightness=" \o d.max_value
        RECURSIVE items(_)
        items(i) ==
            IF i > Len(b.data) THEN "" ELSE item(b.data[i]) \o items(i + 1)
    IN  items(1)

(***************************************************************************)
(* modules/module.rs: Thread                                               *)
(*                                                                         *)
(* A thread is [running, handle, stopper, alive]: the AtomicBool, whether  *)
(* the two Options are Some, and the number of spawned workers that have   *)
(* not yet left their loop.                                                *)
(***************************************************************************)
Thread_new == [running |-> FALSE, handle |-> FALSE, stopper |-> FALSE, alive |-> 0]

\* A faulty variant of Thread_start: the running flag is not looked at, so
\* every call with a timeout spawns a worker.
Thread_start_ignoring_running(t, timeout_s) ==
    IF timeout_s = <<>>
    THEN [thread |-> [t EXCEPT !.running = TRUE], ok |-> FALSE]
    ELSE [thread |-> [running |-> TRUE, handle |-> TRUE, stopper |-> TRUE,
                      alive |-> t.alive + 1],
          ok |-> TRUE]

\* A faulty variant of Thread_start: a start on a running Thread is refused.
Thread_start_refusing_running(t, timeout_s) ==
    IF t.running THEN [thread |-> t, ok |-> FALSE]
    ELSE IF timeout_s = <<>>
         THEN [thread |-> [t EXCEPT !.running = TRUE], ok |-> FALSE]
         ELSE [thread |-> [running |-> TRUE, handle |-> TRUE, stopper |-> TRUE,
                           alive |-> t.alive + 1],
               ok |-> TRUE]

\* Thread::start; timeout_s is <<>> (None) or <<seconds>>.
Thread_start(t, timeout_s) ==
    IF t.running THEN [thread |-> t, ok |-> TRUE]
    ELSE IF timeout_s = <<>>
         THEN [thread |-> [t EXCEPT !.running = TRUE], ok |-> FALSE]
         ELSE [thread |-> [running |-> TRUE, handle |-> TRUE, stopper |-> TRUE,
                           alive |-> t.alive + 1],
               ok |-> TRUE]

\* A faulty variant of Thread_stop: the worker is not joined, so the thread is
\* still held to be running.
Thread_stop_without_join(t) == [thread |-> t, ok |-> TRUE]

\* Thread::stop. The join returns once the worker has left its loop; in this
\* model stop() only ever meets a worker that already has (it ended itself
\* after Changed) or was never spawned, so the join returns at once.
Thread_stop(t) ==
    IF ~t.stopper THEN [thread |-> t, ok |-> TRUE]
    ELSE IF ~t.handle THEN [thread |-> t, ok |-> TRUE]
    ELSE [thread |-> [t EXCEPT !.handle = FALSE, !.running = FALSE, !.alive = 0],
          ok |-> TRUE]

(***************************************************************************)
(* main.rs: the modules, in the order they are pushed; and the Module      *)
(* trait as the adapter calls it, on the current state.                    *)
(***************************************************************************)
Modules == <<CPU_MODULE_NAME, BATTERY_MODULE_NAME, BRIGHTNESS_MODULE_NAME,
             TRASH_MODULE_NAME>>

ModuleNames == SeqRange(Modules)

\* INODE_INDEX once main has built the four modules: 8 + 3 + 0 + 2 inodes.
InodeIndexAfterNew == 14

Cpu_json ==
    "{\"logical_timestamp\":\"0\",\"logical_averrage_usage\":\"0\","
        \o "\"logical_count\":\"0\",\"logical_list\":[],"
        \o "\"physical_timestamp\":\"0\",\"physical_count\":\"0\","
        \o "\"physical_list\":[]}"

Cpu_shell == "logical_cpu_count=0 logical_averrage_usage=0 physical_cpu_count=0"

\* Module::fs_entries
module_fs_entries(name) ==
    CASE name = CPU_MODULE_NAME -> Cpu_module_fs_entries(cpu)
      [] name = BATTERY_MODULE_NAME -> Battery_fs_entries
      [] name = BRIGHTNESS_MODULE_NAME -> brightness.fs_entries
      [] name = TRASH_MODULE_NAME -> Trash_fs_entries

\* Module::value
module_value(name, inode) ==
    CASE name = CPU_MODULE_NAME -> Cpu_value(inode)
      [] name = BATTERY_MODULE_NAME -> Battery_value(battery, inode)
      [] name = BRIGHTNESS_MODULE_NAME -> Brightness_value(brightness, inode)
      [] name = TRASH_MODULE_NAME -> Trash_value(trash, inode)

\* Module::json
module_json(name) ==
    CASE name = CPU_MODULE_NAME -> Cpu_json
      [] name = BATTERY_MODULE_NAME -> Battery_json(battery)
      [] name = BRIGHTNESS_MODULE_NAME -> Brightness_json(brightness)
      [] name = TRASH_MODULE_NAME -> Trash_json(trash)

\* Module::shell
module_shell(name) ==
    CASE name = CPU_MODULE_NAME -> Cpu_shell
      [] name = BATTERY_MODULE_NAME -> Battery_shell(battery)
      [] name = BRIGHTNESS_MODULE_NAME -> Brightness_shell(brightness)
      [] name = TRASH_MODULE_NAME -> Trash_shell(trash)

(***************************************************************************)
(* filesystem.rs: FsBackend                                                *)
(***************************************************************************)
Root_new == FsEntry_new(INODE_ROOT, "Directory", "/", FALSE, <<>>)

\* FsBackend::find_module: <<>> or <<name>> of the first module, in the order of
\* the list, one of whose fs_entries() holds the inode.
find_module(inode) ==
    LET RECURSIVE scan(_)
        scan(i) ==
            IF i > Len(Modules) THEN <<>>
            ELSE IF find_in_children(module_fs_entries(Modules[i]), 1, inode) # <<>>
                 THEN <<Modules[i]>>
                 ELSE scan(i + 1)
    IN  scan(1)

\* FsBackend::register_custom_entries: [entry, inode_index]
register_custom_entries(module_config, entry, index) ==
    LET with_json == module_config.json # <<>>
                         /\ module_config.json[1].enabled = <<TRUE>>
        e1 == IF with_json
              THEN [entry EXCEPT !.fs_entries =
                       Append(@, FsEntry_new(create_inode(index), "RegularFile",
                                             ENTRY_JSON, FALSE, <<>>))]
              ELSE entry
        i1 == IF with_json THEN create_inode(index) ELSE index
        with_shell == module_config.shell # <<>>
                          /\ module_config.shell[1].enabled = <<TRUE>>
        e2 == IF with_shell
              THEN [e1 EXCEPT !.fs_entries =
                       Append(@, FsEntry_new(create_inode(i1), "RegularFile",
                                             ENTRY_SHELL, FALSE, <<>>))]
              ELSE e1
        i2 == IF with_shell THEN create_inode(i1) ELSE i1
    IN  [entry |-> e2, inode_index |-> i2]

\* A faulty variant of remove_first_named: the old directory stays.
remove_none(entries, name) == entries

\* A faulty variant of remove_first_named: the first child of the root goes,
\* whatever its name.
remove_head(entries, name) ==
    IF entries = <<>> THEN entries ELSE Tail(entries)

\* The `Unregister its old filesystem` block of register_module: the children
\* without the first one that carries the name.
remove_first_named(entries, name) ==
    LET hit == {i \in 1..Len(entries) : entries[i].name = name}
    IN  IF hit = {} THEN entries
        ELSE LET index == CHOOSE i \in hit : \A o \in hit : i <= o
             IN  SubSeq(entries, 1, index - 1)
                     \o SubSeq(entries, index + 1, Len(entries))

\* A faulty variant of unregister_module: the enabled flag is not looked at.
unregister_module_whatever_enabled(cfg, name, st) ==
    IF name \notin DOMAIN cfg THEN [st |-> st, proceed |-> FALSE]
    ELSE LET stopped == Thread_stop(st.threads[name])
         IN  [st |-> [st EXCEPT
                         !.threads[name] = stopped.thread,
                         !.root.fs_entries = remove_first_named(@, name)],
              proceed |-> TRUE]

\* FsBackend::register_module up to and including `Unregister its old
\* filesystem`, on st = [root, inode_index, threads]: [st, proceed], proceed
\* telling whether the function goes on to register.
unregister_module(cfg, name, st) ==
    IF name \notin DOMAIN cfg THEN [st |-> st, proceed |-> FALSE]
    ELSE IF cfg[name].enabled # <<TRUE>> THEN [st |-> st, proceed |-> FALSE]
    ELSE LET stopped == Thread_stop(st.threads[name])
         IN  IF ~stopped.ok
             THEN [st |-> [st EXCEPT !.threads[name] = stopped.thread],
                   proceed |-> FALSE]
             ELSE [st |-> [st EXCEPT
                              !.threads[name] = stopped.thread,
                              !.root.fs_entries = remove_first_named(@, name)],
                   proceed |-> TRUE]

\* FsBackend::register_module from `Register its filesystem` on; children is
\* what module.fs_entries() returns.
graft_module(cfg, name, children, st) ==
    LET inode == create_inode(st.inode_index)
        entry == FsEntry_new(inode, "Directory", name, FALSE, children)
        custom == register_custom_entries(cfg[name], entry, inode)
        started == Thread_start(st.threads[name], cfg[name].timeout_s)
    IN  [root |-> [st.root EXCEPT !.fs_entries = Append(@, custom.entry)],
         inode_index |-> custom.inode_index,
         threads |-> [st.threads EXCEPT ![name] = started.thread]]

\* FsBackend::register_module
register_module(cfg, name, children, st) ==
    LET unregistered == unregister_module(cfg, name, st)
    IN  IF unregistered.proceed
        THEN graft_module(cfg, name, children, unregistered.st)
        ELSE unregistered.st

\* FsBackend::register_modules
register_modules(cfg, st) ==
    LET RECURSIVE each(_, _)
        each(i, acc) ==
            IF i > Len(Modules) THEN acc
            ELSE each(i + 1, register_module(cfg, Modules[i],
                                             module_fs_entries(Modules[i]), acc))
    IN  each(1, [st EXCEPT !.root.fs_entries = <<>>])

\* FsBackend::register_module_by_name with find_module_by_name
register_module_by_name(cfg, name, st) ==
    IF name \in ModuleNames
    THEN register_module(cfg, name, module_fs_entries(name), st)
    ELSE st

(***************************************************************************)
(* filesystem.rs: the callbacks of Fs. A reply is [kind, body]: "error"    *)
(* (body the errno), "data" (the bytes), "directory" (the entries added,   *)
(* each [ino, offset, kind, name]), "written" (the size), "none" (the      *)
(* callback returned without using its reply object) or "panic" (it        *)
(* unwound: an out-of-range slice).                                        *)
(***************************************************************************)
NoReply == [kind |-> "none", body |-> ""]
ReplyError(errno) == [kind |-> "error", body |-> errno]
ReplyData(bytes) == [kind |-> "data", body |-> bytes]
ReplyPanic == [kind |-> "panic", body |-> ""]

Min(a, b) == IF a < b THEN a ELSE b

\* The tail of both branches of Fs::read, from `let bytes = value.as_bytes()`.
\* &bytes[a..b] panics when a > b. Offsets stay far below 2^32 here, so
\* `offset as u32` is the offset itself.
read_bytes(value, offset, size) ==
    LET length == Len(value)
    IN  IF offset >= 0 /\ offset < length
        THEN LET end == Min(size, length)
             IN  IF offset > end THEN ReplyPanic
                 ELSE ReplyData(SubSeq(value, offset + 1, end))
        ELSE NoReply

\* The `It must be a custom entry` loops of Fs::read and Fs::getattr: the name
\* of the module whose directory under the root holds the inode, when a module
\* of that name exists.
custom_owner(tree, inode) ==
    LET hit == {i \in 1..Len(tree.fs_entries) :
                   find(tree.fs_entries[i], inode) # <<>>}
    IN  IF hit = {} THEN <<>>
        ELSE LET module_entry == tree.fs_entries[CHOOSE i \in hit :
                                     \A o \in hit : i <= o]
             IN  IF module_entry.name \in ModuleNames
                 THEN <<module_entry.name>> ELSE <<>>

\* A faulty variant of Fs_read: the write_only test is missing.
Fs_read_without_mode_check(ino, offset, size) ==
    LET found == find(root, ino)
    IN  IF found = <<>> THEN [reply |-> ReplyError(ENOENT), calls |-> <<>>]
        ELSE LET entry == found[1]
                 owner == find_module(entry.inode)
             IN  IF owner # <<>>
                 THEN [reply |-> read_bytes(module_value(owner[1], entry.inode),
                                            offset, size),
                       calls |-> <<[fn |-> "value", module |-> owner[1],
                                    inode |-> entry.inode, data |-> ""]>>]
                 ELSE [reply |-> ReplyError(ENOENT), calls |-> <<>>]

\* Fs::read: [reply, calls]
Fs_read(ino, offset, size) ==
    LET found == find(root, ino)
    IN  IF found = <<>> THEN [reply |-> ReplyError(ENOENT), calls |-> <<>>]
        ELSE LET entry == found[1]
                 owner == find_module(entry.inode)
                 custom == custom_owner(root, entry.inode)
             IN  IF entry.write_only
                 THEN [reply |-> ReplyError(ENOENT), calls |-> <<>>]
                 ELSE IF owner # <<>>
                 THEN [reply |-> read_bytes(module_value(owner[1], entry.inode),
                                            offset, size),
                       calls |-> <<[fn |-> "value", module |-> owner[1],
                                    inode |-> entry.inode, data |-> ""]>>]
                 ELSE IF custom = <<>>
                 THEN [reply |-> ReplyError(ENOENT), calls |-> <<>>]
                 ELSE IF entry.name = ENTRY_JSON
                 THEN [reply |-> read_bytes(module_json(custom[1]), offset, size),
                       calls |-> <<[fn |-> "json", module |-> custom[1],
                                    inode |-> entry.inode, data |-> ""]>>]
                 ELSE IF entry.name = ENTRY_SHELL
                 THEN [reply |-> read_bytes(module_shell(custom[1]), offset, size),
                       calls |-> <<[fn |-> "shell", module |-> custom[1],
                                    inode |-> entry.inode, data |-> ""]>>]
                 ELSE [reply |-> ReplyError(ENOENT), calls |-> <<>>]

\* A faulty variant of Fs_write: the data is cut at the offset before it is delivered.
Fs_write_from_offset(ino, offset, data) ==
    LET found == find(root, ino)
    IN  IF found = <<>> \/ ~found[1].write_only \/ find_module(ino) = <<>>
        THEN [reply |-> ReplyError(ENOENT), calls |-> <<>>, trash |-> trash]
        ELSE LET cut == SubSeq(data, offset + 1, Len(data))
             IN  [reply |-> [kind |-> "written", body |-> Len(cut)],
                  calls |-> <<[fn |-> "set_value", module |-> find_module(ino)[1],
                               inode |-> ino, data |-> cut]>>,
                  trash |-> Trash_set_value(trash, ino, cut)]

\* Fs::write: [reply, calls, trash]. Only the trash module's set_value has an
\* effect; the others are empty.
Fs_write(ino, offset, data) ==
    LET found == find(root, ino)
    IN  IF found = <<>>
        THEN [reply |-> ReplyError(ENOENT), calls |-> <<>>, trash |-> trash]
        ELSE LET entry == found[1]
                 owner == find_module(entry.inode)
             IN  IF ~entry.write_only
                 THEN [reply |-> ReplyError(ENOENT), calls |-> <<>>,
                       trash |-> trash]
                 ELSE IF owner # <<>>
                 THEN [reply |-> [kind |-> "written", body |-> Len(data)],
                       calls |-> <<[fn |-> "set_value", module |-> owner[1],
                                    inode |-> entry.inode, data |-> data]>>,
                       trash |-> IF owner[1] = TRASH_MODULE_NAME
                                 THEN Trash_set_value(trash, entry.inode, data)
                                 ELSE trash]
                 ELSE [reply |-> ReplyError(ENOENT), calls |-> <<>>,
                       trash |-> trash]

\* The list Fs::readdir assembles before it replies: '.', '..', the children.
readdir_entries(tree, ino) ==
    LET found == find(tree, ino)
        children == IF found = <<>> THEN <<>> ELSE found[1].fs_entries
    IN  <<[ino |-> INODE_ROOT, kind |-> "Directory", name |-> "."],
          [ino |-> INODE_ROOT, kind |-> "Directory", name |-> ".."]>>
        \o [i \in 1..Len(children) |->
               [ino |-> children[i].inode, kind |-> children[i].file_type,
                name |-> children[i].name]]

\* A faulty variant of Fs_readdir: an entry's offset is its own index, not the next one.
Fs_readdir_own_offset(tree, ino, offset) ==
    LET entries == readdir_entries(tree, ino)
        skip == IF offset < 0 THEN Len(entries) ELSE Min(offset, Len(entries))
    IN  [kind |-> "directory",
         body |-> [k \in 1..(Len(entries) - skip) |->
                      [ino |-> entries[skip + k].ino, offset |-> skip + k - 1,
                       kind |-> entries[skip + k].kind,
                       name |-> entries[skip + k].name]]]

\* Fs::readdir: every reply.add of the loop, then reply.ok(). `offset as usize`
\* of a negative offset is beyond every list: nothing is added.
Fs_readdir(tree, ino, offset) ==
    LET entries == readdir_entries(tree, ino)
        skip == IF offset < 0 THEN Len(entries) ELSE Min(offset, Len(entries))
    IN  [kind |-> "directory",
         body |-> [k \in 1..(Len(entries) - skip) |->
                      [ino |-> entries[skip + k].ino, offset |-> skip + k,
                       kind |-> entries[skip + k].kind,
                       name |-> entries[skip + k].name]]]

\* FsEntry::attrs: the fields of FileAttr that depend on the entry. perm is
\* 0o222, 0o444 or 0o555.
attrs(self, size) ==
    [ino |-> self.inode,
     size |-> size,
     blocks |-> IF self.file_type = "RegularFile" THEN 1 ELSE 0,
     kind |-> self.file_type,
     perm |-> IF self.file_type = "RegularFile"
              THEN (IF self.write_only THEN 146 ELSE 292)
              ELSE 365,
     nlink |-> IF self.file_type = "RegularFile" THEN 1 ELSE 2]

\* FsEntry::find_by_name: <<>> or <<entry>>, the entry itself first, then its
\* children in order, each searched in depth.
RECURSIVE find_by_name(_, _), find_by_name_in_children(_, _, _)
find_by_name(self, name) ==
    IF self.name = name THEN <<self>>
    ELSE find_by_name_in_children(self.fs_entries, 1, name)

\* The `for entry in self.fs_entries.iter()` loop of FsEntry::find_by_name.
find_by_name_in_children(entries, i, name) ==
    IF i > Len(entries) THEN <<>>
    ELSE LET found == find_by_name(entries[i], name)
         IN  IF found # <<>> THEN found
             ELSE find_by_name_in_children(entries, i + 1, name)

ReplyEntry(attr) == [kind |-> "entry", body |-> attr]
ReplyAttr(attr) == [kind |-> "attr", body |-> attr]

\* A name the kernel hands over that is not UTF-8, and OsStr::to_str.
NotUtf8 == "\\xff"
to_str(name) == IF name = NotUtf8 THEN <<>> ELSE <<name>>

\* A faulty variant of custom_size: the leaves are given no size.
custom_size_zero(module, entry) == [size |-> 0, calls |-> <<>>]

\* The size match of lookup and getattr for an entry no module owns.
custom_size(module, entry) ==
    IF entry.name = ENTRY_JSON
    THEN [size |-> Len(module_json(module)),
          calls |-> <<[fn |-> "json", module |-> module,
                       inode |-> entry.inode, data |-> ""]>>]
    ELSE IF entry.name = ENTRY_SHELL
    THEN [size |-> Len(module_shell(module)),
          calls |-> <<[fn |-> "shell", module |-> module,
                       inode |-> entry.inode, data |-> ""]>>]
    ELSE [size |-> 0, calls |-> <<>>]

\* Fs::lookup: [reply, calls]
Fs_lookup(parent, name) ==
    LET entry_name == to_str(name)
        parent_entry == find(root, parent)
    IN  IF entry_name = <<>> THEN [reply |-> ReplyError(ENOENT), calls |-> <<>>]
        ELSE IF parent_entry = <<>>
        THEN [reply |-> ReplyError(ENOENT), calls |-> <<>>]
        ELSE LET found == find_by_name(parent_entry[1], entry_name[1])
             IN  IF found = <<>>
                 THEN [reply |-> ReplyError(ENOENT), calls |-> <<>>]
                 ELSE LET entry == found[1]
                          owner == find_module(entry.inode)
                      IN  IF entry.file_type = "Directory"
                          THEN [reply |-> ReplyEntry(attrs(entry, 0)),
                                calls |-> <<>>]
                          ELSE IF owner # <<>>
                          THEN [reply |-> ReplyEntry(attrs(entry,
                                    Len(module_value(owner[1], entry.inode)))),
                                calls |-> <<[fn |-> "value",
                                             module |-> owner[1],
                                             inode |-> entry.inode,
                                             data |-> ""]>>]
                          ELSE IF parent_entry[1].name \in ModuleNames
                          THEN LET custom == custom_size(parent_entry[1].name,
                                                         entry)
                               IN  [reply |-> ReplyEntry(attrs(entry,
                                                                custom.size)),
                                    calls |-> custom.calls]
                          ELSE [reply |-> ReplyError(ENOENT), calls |-> <<>>]

\* Fs::getattr: [reply, calls]
Fs_getattr(ino) ==
    LET found == find(root, ino)
    IN  IF found = <<>> THEN [reply |-> ReplyError(ENOENT), calls |-> <<>>]
        ELSE LET entry == found[1]
                 owner == find_module(entry.inode)
                 module == custom_owner(root, entry.inode)
             IN  IF entry.file_type = "Directory"
                 THEN [reply |-> ReplyAttr(attrs(entry, 0)), calls |-> <<>>]
                 ELSE IF owner # <<>>
                 THEN [reply |-> ReplyAttr(attrs(entry,
                           Len(module_value(owner[1], entry.inode)))),
                       calls |-> <<[fn |-> "value", module |-> owner[1],
                                    inode |-> entry.inode, data |-> ""]>>]
                 ELSE IF module # <<>>
                 THEN LET custom == custom_size(module[1], entry)
                      IN  [reply |-> ReplyAttr(attrs(entry, custom.size)),
                           calls |-> custom.calls]
                 ELSE [reply |-> ReplyError(ENOENT), calls |-> <<>>]

\* Fs::setattr hands the request to getattr.
Fs_setattr(ino) == Fs_getattr(ino)

(***************************************************************************)
(* Bounds and the inputs drawn from them                                   *)
(***************************************************************************)
MaxInode == 30        \* no inode is allocated beyond this one
MaxOffset == 2        \* read and write offsets are -1..MaxOffset
MaxSize == 2          \* read sizes are 0..MaxSize and one page
MaxDirOffset == 4     \* readdir offsets are -1..MaxDirOffset
MaxTrashFiles == 1    \* files the trash directory holds at most
MaxHist == 6          \* values the percent history records at most

ReadOffsets == -1..MaxOffset
ReadSizes == (0..MaxSize) \cup {4096}
DirOffsets == -1..MaxDirOffset
WriteData == {"1", "true\n", "0"}

None == <<>>
Some(v) == <<v>>

\* config.rs: ModuleConfig. temperature plays no part in what is modelled.
ModuleConfig(enabled, timeout_s, json, shell) ==
    [enabled |-> enabled, timeout_s |-> timeout_s,
     json |-> IF json THEN Some([enabled |-> Some(TRUE)]) ELSE None,
     shell |-> IF shell THEN Some([enabled |-> Some(TRUE)]) ELSE None]

\* The configurations the filesystem is explored under. The cpu sampler is
\* not part of this model: cpu is enabled without a timeout only.
NoModuleConfig == [name \in {} |-> ModuleConfig(None, None, FALSE, FALSE)]

ConfigChoices ==
    { NoModuleConfig,
      [name \in {BATTERY_MODULE_NAME, TRASH_MODULE_NAME} |->
          IF name = BATTERY_MODULE_NAME
          THEN ModuleConfig(Some(TRUE), Some(1), TRUE, TRUE)
          ELSE ModuleConfig(Some(TRUE), Some(1), FALSE, FALSE)],
      [name \in {BATTERY_MODULE_NAME, BRIGHTNESS_MODULE_NAME,
                 TRASH_MODULE_NAME} |->
          CASE name = BATTERY_MODULE_NAME ->
                   ModuleConfig(Some(TRUE), Some(1), FALSE, FALSE)
            [] name = BRIGHTNESS_MODULE_NAME ->
                   ModuleConfig(Some(TRUE), Some(1), TRUE, FALSE)
            [] name = TRASH_MODULE_NAME ->
                   ModuleConfig(Some(FALSE), Some(1), TRUE, TRUE)],
      [name \in {BRIGHTNESS_MODULE_NAME, TRASH_MODULE_NAME} |->
          IF name = BRIGHTNESS_MODULE_NAME
          THEN ModuleConfig(Some(TRUE), Some(1), FALSE, TRUE)
          ELSE ModuleConfig(Some(TRUE), None, FALSE, FALSE)],
      [name \in {CPU_MODULE_NAME, BATTERY_MODULE_NAME, TRASH_MODULE_NAME} |->
          CASE name = CPU_MODULE_NAME ->
                   ModuleConfig(Some(TRUE), None, TRUE, FALSE)
            [] name = BATTERY_MODULE_NAME ->
                   ModuleConfig(None, Some(1), TRUE, TRUE)
            [] name = TRASH_MODULE_NAME ->
                   ModuleConfig(Some(TRUE), Some(1), FALSE, FALSE)] }

\* What /sys/class/backlight holds: no device, or one.
Backlight(value) ==
    [name |-> "bl0", brightness |-> value, actual_brightness |-> value,
     max_brightness |-> "15\n"]

SysfsChoices == { <<>>, <<Backlight("7\n")>> }

\* What the battery probe reports at one tick of the filesystem's exploration.
FsBatterySamples ==
    { [on_ac_power |-> "Err", battery_life |-> [ok |-> FALSE, percent |-> 0,
                                                time |-> 0]],
      [on_ac_power |-> "OkTrue", battery_life |-> [ok |-> TRUE, percent |-> 18,
                                                   time |-> 3725]] }

Idle == [op |-> "idle", ino |-> 0, offset |-> 0, size |-> 0, data |-> ""]

\* The names a lookup may carry: leaves, fields, directories, the root's own
\* name, a name no entry has and one that is not UTF-8.
LookupNames ==
    {ENTRY_JSON, ENTRY_SHELL, "count", "percent", "bl0", BATTERY_MODULE_NAME,
     "/", "nosuch", NotUtf8}

\* The identifiers a request may carry: the invalid one, every entry of the
\* tree, one allocated to a module that is not grafted, one never allocated.
RequestInodes ==
    {INODE_INVALID, 2, inode_index + 1}
        \cup {e.inode : e \in SeqRange(Flatten(root))}

(***************************************************************************)
(* Trigger::execute, one piece of the command at a time                    *)
(***************************************************************************)
\* str::split(sep): the texts between the separators, empty ones included;
\* a text without separator is one piece, the empty text is one empty piece.
RECURSIVE split(_, _)
split(s, sep) ==
    IF \E i \in 1..Len(s) : Char(s, i) = sep
    THEN LET first == CHOOSE i \in 1..Len(s) :
                          /\ Char(s, i) = sep
                          /\ \A j \in 1..(i - 1) : Char(s, j) # sep
         IN  <<SubSeq(s, 1, first - 1)>>
                 \o split(SubSeq(s, first + 1, Len(s)), sep)
    ELSE <<s>>

\* shellwords::split read from position i on: word is the field being read
\* (None between fields), quote the quotation mark that is open ("" when
\* none is). Blanks separate fields outside quotation marks, the marks are
\* dropped, and a mark that is never closed is an error.
RECURSIVE shellwords_scan(_, _, _, _)
shellwords_scan(s, i, word, quote) ==
    IF i > Len(s)
    THEN IF quote # "" THEN [ok |-> FALSE, words |-> <<>>]
         ELSE [ok |-> TRUE, words |-> word]
    ELSE LET c == Char(s, i)
             text == (word \o <<"">>)[1]
         IN  IF quote # ""
             THEN IF c = quote
                  THEN shellwords_scan(s, i + 1, word, "")
                  ELSE shellwords_scan(s, i + 1, <<text \o c>>, quote)
             ELSE IF c \in {"\"", "'"}
                  THEN shellwords_scan(s, i + 1, <<text>>, c)
             ELSE IF c = " "
                  THEN LET rest == shellwords_scan(s, i + 1, <<>>, "")
                       IN  [ok |-> rest.ok,
                            words |-> IF rest.ok THEN word \o rest.words
                                      ELSE <<>>]
             ELSE shellwords_scan(s, i + 1, <<text \o c>>, "")

shellwords_split(s) == shellwords_scan(s, 1, <<>>, "")

\* What process::Command::new(program).output() gives on the modelled
\* machine: true and false are installed and exit with 0 and 1, no other
\* program is found.
Command_output(program) ==
    CASE program = "true" -> [spawned |-> TRUE, success |-> TRUE]
      [] program = "false" -> [spawned |-> TRUE, success |-> FALSE]
      [] program = "cat" -> [spawned |-> TRUE, success |-> TRUE]
      [] OTHER -> [spawned |-> FALSE, success |-> FALSE]

\* Whether the program reads the file its argument names before it exits;
\* cat does, and it exits with 0 when the read gave it data.
Command_reads(program) == program = "cat"

\* No find_all_and_execute call is in progress.
NoExecution ==
    [state |-> "idle", rules |-> <<>>, rule |-> 0, pieces |-> <<>>,
     piece |-> 0, child |-> <<>>, log |-> <<>>]

\* No call into the Thread of the module is in progress.
NoCaller == [pc |-> "idle", op |-> "none", ok |-> TRUE, joined |-> 0,
             snapshot |-> <<>>, grafted |-> <<>>]

\* No read of a file of the module is in progress: [pc, reader, ino, held,
\* plan, reply], where reader is who asked ("child": the command of a rule),
\* held the mutexes the callback holds and plan the same in the order it
\* took them.
NoCallback ==
    [pc |-> "idle", reader |-> "none", ino |-> 0, held |-> {}, plan |-> <<>>,
     reply |-> "none"]

ComponentInit ==
    /\ execution = NoExecution
    /\ sampler = ""
    /\ workers = <<>>
    /\ caller = NoCaller
    /\ cpu = CpuBackend_new
    /\ callback = NoCallback

(***************************************************************************)
(* The filesystem: mount, the workers, the event thread, the environment   *)
(* and the callbacks. The trigger list is empty here, so no rule runs and  *)
(* the trigger histories stay as they are.                                 *)
(***************************************************************************)
Init ==
    /\ triggers = <<>>
    /\ battery = BatteryData_new
    /\ hist = <<>>
    /\ fired = <<>>
    /\ dispatched = <<>>
    /\ config \in ConfigChoices
    /\ root = Root_new
    /\ inode_index = InodeIndexAfterNew
    /\ brightness = Brightness_new
    /\ sysfs \in SysfsChoices
    /\ trash = Trash_new
    /\ threads = [name \in ModuleNames |-> Thread_new]
    /\ events = <<>>
    /\ mounted = FALSE
    /\ aborted = FALSE
    /\ grafting = <<>>
    /\ req = Idle
    /\ reply = NoReply
    /\ calls = <<>>
    /\ ComponentInit

Forget == req' = Idle /\ reply' = NoReply /\ calls' = <<>>

\* Fs::init
FsInit ==
    /\ ~mounted /\ ~aborted
    /\ grafting = <<>>
    /\ \E st \in {register_modules(config, [root |-> root,
                                              inode_index |-> inode_index,
                                              threads |-> threads])} :
           /\ root' = st.root
           /\ inode_index' = st.inode_index
           /\ threads' = st.threads
    /\ mounted' = TRUE
    /\ Forget
    /\ UNCHANGED component_vars
    /\ UNCHANGED grafting
    /\ UNCHANGED <<trigger_vars, config, brightness, sysfs, trash, events,
                   aborted>>

\* One turn of the battery worker's loop: BatteryBackend::update returns Ok.
BatteryTick ==
    /\ ~aborted
    /\ threads[BATTERY_MODULE_NAME].alive > 0
    /\ \E sample \in FsBatterySamples :
           battery' = BatteryBackend_update(battery, triggers,
                          sample.on_ac_power, sample.battery_life).data
    /\ Forget
    /\ UNCHANGED component_vars
    /\ UNCHANGED grafting
    /\ UNCHANGED <<triggers, hist, fired, dispatched, config, root,
                   inode_index, brightness, sysfs, trash, threads, events,
                   mounted, aborted>>

\* The trash worker: update_count, at the start of update and at each event of
\* its watch.
TrashTick ==
    /\ ~aborted
    /\ threads[TRASH_MODULE_NAME].alive > 0
    /\ trash' = update_count(trash, triggers).trash
    /\ Forget
    /\ UNCHANGED component_vars
    /\ UNCHANGED grafting
    /\ UNCHANGED <<trigger_vars, config, root, inode_index, brightness, sysfs,
                   threads, events, mounted, aborted>>

\* The environment drops a file into the trash.
TrashFileAdded ==
    /\ ~aborted
    /\ Len(trash.files) < MaxTrashFiles
    /\ trash' = [trash EXCEPT
                    !.files = Append(@, TrashFile("f")),
                    !.info = Append(@, TrashFile("f.trashinfo"))]
    /\ Forget
    /\ UNCHANGED component_vars
    /\ UNCHANGED grafting
    /\ UNCHANGED <<trigger_vars, config, root, inode_index, brightness, sysfs,
                   threads, events, mounted, aborted>>

\* One turn of the brightness worker's loop. build_filesystem either rebuilds
\* (Changed: the worker sends ModuleUpdated and leaves its loop) or finds the
\* entries in place, and update enters its watch loop for good.
BrightnessTick ==
    /\ ~aborted
    /\ threads[BRIGHTNESS_MODULE_NAME].alive > 0
    /\ ~brightness.watching
    /\ inode_index + 4 * Len(sysfs) + 3 <= MaxInode
    /\ \E built \in {build_filesystem(brightness, sysfs, inode_index,
                                         triggers)} :
           IF built.status = "Changed"
           THEN /\ brightness' = built.brightness
                /\ inode_index' = built.inode_index
                /\ events' = Append(events, BRIGHTNESS_MODULE_NAME)
                /\ threads' = [threads EXCEPT
                                  ![BRIGHTNESS_MODULE_NAME].alive = @ - 1]
           ELSE /\ brightness' = [brightness EXCEPT !.watching = TRUE]
                /\ UNCHANGED <<inode_index, events, threads>>
    /\ Forget
    /\ UNCHANGED component_vars
    /\ UNCHANGED grafting
    /\ UNCHANGED <<trigger_vars, config, root, sysfs, trash, mounted, aborted>>

\* The watch loop of BrightnessBackendProxy::update: a device's brightness
\* file was written, its value is read again.
BrightnessWatchEvent ==
    /\ ~aborted
    /\ brightness.watching
    /\ \E value \in {"7\n", "12\n"} :
           /\ sysfs # <<>>
           /\ sysfs[1].brightness # value
           /\ sysfs' = <<[sysfs[1] EXCEPT !.brightness = value]>>
           /\ brightness' =
                  [brightness EXCEPT !.data[1].value = strip_newlines(value)]
    /\ Forget
    /\ UNCHANGED component_vars
    /\ UNCHANGED grafting
    /\ UNCHANGED <<trigger_vars, config, root, inode_index, trash, threads,
                   events, mounted, aborted>>

\* The event thread of Fs::init takes one ModuleUpdated off the bus, locks the
\* backend and runs register_module_by_name as far as the unregistering. It
\* keeps the mutex when there is a filesystem to register.
ConsumeEvent ==
    /\ ~aborted
    /\ mounted
    /\ events # <<>>
    /\ grafting = <<>>
    /\ \E done \in {IF Head(events) \in ModuleNames
                     THEN unregister_module(config, Head(events),
                              [root |-> root, inode_index |-> inode_index,
                               threads |-> threads])
                     ELSE [st |-> [root |-> root, inode_index |-> inode_index,
                                   threads |-> threads],
                           proceed |-> FALSE]} :
           /\ root' = done.st.root
           /\ inode_index' = done.st.inode_index
           /\ threads' = done.st.threads
           /\ grafting' = IF done.proceed THEN <<Head(events)>> ELSE <<>>
    /\ events' = Tail(events)
    /\ Forget
    /\ UNCHANGED component_vars
    /\ UNCHANGED <<trigger_vars, config, brightness, sysfs, trash, mounted,
                   aborted>>

\* The event thread registers the module's filesystem, starts the module and
\* releases the backend mutex.
GraftComplete ==
    /\ ~aborted
    /\ grafting # <<>>
    /\ \E st \in {graft_module(config, grafting[1],
                        module_fs_entries(grafting[1]),
                        [root |-> root, inode_index |-> inode_index,
                         threads |-> threads])} :
           /\ root' = st.root
           /\ inode_index' = st.inode_index
           /\ threads' = st.threads
    /\ grafting' = <<>>
    /\ Forget
    /\ UNCHANGED component_vars
    /\ UNCHANGED <<trigger_vars, config, brightness, sysfs, trash, events,
                   mounted, aborted>>

\* A faulty variant of backend_lock_acquired: the callback does not wait for
\* the mutex.
backend_lock_skipped == TRUE

\* self.backend.lock() at the head of a callback: the callback runs once the
\* mutex is free.
backend_lock_acquired == grafting = <<>>

\* The session loop handles one request at a time: the callback has returned
\* and the loop waits for the next request.
Return ==
    /\ ~aborted
    /\ req.op # "idle"
    /\ Forget
    /\ UNCHANGED component_vars
    /\ UNCHANGED grafting
    /\ UNCHANGED <<trigger_vars, config, root, inode_index, brightness, sysfs,
                   trash, threads, events, mounted, aborted>>

\* Fs::read
Read ==
    /\ mounted /\ ~aborted /\ req.op = "idle"
    /\ backend_lock_acquired
    /\ \E ino \in RequestInodes, offset \in ReadOffsets, size \in ReadSizes :
           \E done \in {Fs_read(ino, offset, size)} :
               /\ req' = [op |-> "read", ino |-> ino, offset |-> offset,
                          size |-> size, data |-> ""]
               /\ reply' = done.reply
               /\ calls' = done.calls
               /\ aborted' = (done.reply.kind = "panic")
    /\ UNCHANGED component_vars
    /\ UNCHANGED grafting
    /\ UNCHANGED <<trigger_vars, config, root, inode_index, brightness, sysfs,
                   trash, threads, events, mounted>>

\* Fs::write
Write ==
    /\ mounted /\ ~aborted /\ req.op = "idle"
    /\ backend_lock_acquired
    /\ \E ino \in RequestInodes, offset \in 0..MaxOffset, data \in WriteData :
           \E done \in {Fs_write(ino, offset, data)} :
               /\ req' = [op |-> "write", ino |-> ino, offset |-> offset,
                          size |-> Len(data), data |-> data]
               /\ reply' = done.reply
               /\ calls' = done.calls
               /\ trash' = done.trash
    /\ UNCHANGED component_vars
    /\ UNCHANGED grafting
    /\ UNCHANGED <<trigger_vars, config, root, inode_index, brightness, sysfs,
                   threads, events, mounted, aborted>>

\* Fs::readdir
Readdir ==
    /\ mounted /\ ~aborted /\ req.op = "idle"
    /\ backend_lock_acquired
    /\ \E ino \in RequestInodes, offset \in DirOffsets :
           /\ req' = [op |-> "readdir", ino |-> ino, offset |-> offset,
                      size |-> 0, data |-> ""]
           /\ reply' = Fs_readdir(root, ino, offset)
           /\ calls' = <<>>
    /\ UNCHANGED component_vars
    /\ UNCHANGED grafting
    /\ UNCHANGED <<trigger_vars, config, root, inode_index, brightness, sysfs,
                   trash, threads, events, mounted, aborted>>

\* Fs::lookup
Lookup ==
    /\ mounted /\ ~aborted /\ req.op = "idle"
    /\ backend_lock_acquired
    /\ \E parent \in RequestInodes, name \in LookupNames :
           \E done \in {Fs_lookup(parent, name)} :
               /\ req' = [op |-> "lookup", ino |-> parent, offset |-> 0,
                          size |-> 0, data |-> name]
               /\ reply' = done.reply
               /\ calls' = done.calls
    /\ UNCHANGED component_vars
    /\ UNCHANGED grafting
    /\ UNCHANGED <<trigger_vars, config, root, inode_index, brightness, sysfs,
                   trash, threads, events, mounted, aborted>>

\* Fs::getattr
Getattr ==
    /\ mounted /\ ~aborted /\ req.op = "idle"
    /\ backend_lock_acquired
    /\ \E ino \in RequestInodes :
           \E done \in {Fs_getattr(ino)} :
               /\ req' = [op |-> "getattr", ino |-> ino, offset |-> 0,
                          size |-> 0, data |-> ""]
               /\ reply' = done.reply
               /\ calls' = done.calls
    /\ UNCHANGED component_vars
    /\ UNCHANGED grafting
    /\ UNCHANGED <<trigger_vars, config, root, inode_index, brightness, sysfs,
                   trash, threads, events, mounted, aborted>>

\* Fs::setattr
Setattr ==
    /\ mounted /\ ~aborted /\ req.op = "idle"
    /\ backend_lock_acquired
    /\ \E ino \in RequestInodes :
           \E done \in {Fs_setattr(ino)} :
               /\ req' = [op |-> "setattr", ino |-> ino, offset |-> 0,
                          size |-> 0, data |-> ""]
               /\ reply' = done.reply
               /\ calls' = done.calls
    /\ UNCHANGED component_vars
    /\ UNCHANGED grafting
    /\ UNCHANGED <<trigger_vars, config, root, inode_index, brightness, sysfs,
                   trash, threads, events, mounted, aborted>>

Next ==
    \/ FsInit
    \/ BatteryTick
    \/ TrashTick
    \/ TrashFileAdded
    \/ BrightnessTick
    \/ BrightnessWatchEvent
    \/ ConsumeEvent
    \/ GraftComplete
    \/ Return
    \/ Read
    \/ Write
    \/ Readdir
    \/ Lookup
    \/ Getattr
    \/ Setattr

Spec == Init /\ [][Next]_vars

(***************************************************************************)
(* The battery worker under a rule file: each tick is one                  *)
(* BatteryBackend::update. hist records, per entry, the values the entry   *)
(* has taken; fired counts, per rule, the calls of execute().              *)
(***************************************************************************)
BatteryEntries == {ENTRY_PLUGGED, ENTRY_PERCENT, ENTRY_TIME_REMAINING}

TriggerFiles ==
    { <<Trigger_new("U", "/battery/percent", "<", "20", "notify-send low"),
        Trigger_new("U", "/battery/percent", ">", "20", "notify-send ok")>>,
      <<Trigger_new("U", "/battery", "<", "18", "systemctl suspend"),
        Trigger_new("U", "/battery/.*", ">", "22", "true"),
        Trigger_new("C", "/battery/percent", "<", "20", "true")>>,
      <<Trigger_new("U", "/battery/percent", "<", "2a", "true"),
        Trigger_new("U", "/trash/count", "<", "20", "true"),
        Trigger_new("U", "/battery/percent", "==", "18", "true")>> }

\* What the battery probe reports at one tick.
TriggerSamples ==
    {[on_ac_power |-> "Err",
      battery_life |-> [ok |-> FALSE, percent |-> 0, time |-> 0]]}
        \cup {[on_ac_power |-> "OkFalse",
               battery_life |-> [ok |-> TRUE, percent |-> p, time |-> 3725]] :
                  p \in {15, 18, 22, 25}}

InitTrigger ==
    /\ triggers \in TriggerFiles
    /\ battery = BatteryData_new
    /\ hist = [entry \in BatteryEntries |-> <<BatteryData_new[entry]>>]
    /\ fired = [i \in 1..Len(triggers) |-> 0]
    /\ dispatched = <<>>
    /\ config = NoModuleConfig
    /\ root = Root_new
    /\ inode_index = InodeIndexAfterNew
    /\ brightness = Brightness_new
    /\ sysfs = <<>>
    /\ trash = Trash_new
    /\ threads = [name \in ModuleNames |-> Thread_new]
    /\ events = <<>>
    /\ mounted = FALSE
    /\ aborted = FALSE
    /\ grafting = <<>>
    /\ req = Idle
    /\ reply = NoReply
    /\ calls = <<>>
    /\ ComponentInit

\* One turn of the battery worker's loop, with the histories.
Sample ==
    /\ Len(hist[ENTRY_PERCENT]) < MaxHist
    /\ \E sample \in TriggerSamples :
           \E done \in {BatteryBackend_update(battery, triggers,
                            sample.on_ac_power, sample.battery_life)} :
               /\ battery' = done.data
               /\ hist' = [entry \in BatteryEntries |->
                              IF done.data[entry] # battery[entry]
                              THEN Append(hist[entry], done.data[entry])
                              ELSE hist[entry]]
               /\ fired' = [i \in 1..Len(triggers) |->
                               fired[i] + Cardinality(
                                   {k \in 1..Len(done.events) :
                                       i \in SeqRange(done.events[k].executed)})]
               /\ dispatched' = done.events
    /\ UNCHANGED component_vars
    /\ UNCHANGED <<triggers, fs_vars>>

NextTrigger == Sample

SpecTrigger == InitTrigger /\ [][NextTrigger]_vars

(***************************************************************************)
(* find_all_and_execute on its own: one event against a rule file.         *)
(***************************************************************************)
DispatchFiles ==
    { <<Trigger_new("U", "/battery/percent", "<", "20", "true"),
        Trigger_new("U", "/battery/percent", ">", "20", "true"),
        Trigger_new("U", "/battery/percent", "<", "2a", "true"),
        Trigger_new("U", "/battery/percent", ">", "*", "true"),
        Trigger_new("U", "/battery/.*", "*", "*", "true")>>,
      <<Trigger_new("U", "/battery/.*", "<", "020", "true"),
        Trigger_new("C", "/trash/count", ">", "0", "true"),
        Trigger_new("U", "/battery/percent", "==", "20", "true"),
        Trigger_new("U", "/battery/percent", "!=", "20", "true"),
        Trigger_new("U", "/trash", ">", "15", "true"),
        Trigger_new("C", "/trash/count/all", "*", "*", "true"),
        Trigger_new("U", "*/battery/percent", "*", "*", "true")>> }

DispatchKinds == {"Create", "Update"}
DispatchPaths == {<<BATTERY_MODULE_NAME, ENTRY_PERCENT>>,
                  <<TRASH_MODULE_NAME, ENTRY_COUNT>>}
DispatchValues == {"?", "", "-", "15", "20", "25", "-5", "+20", "2x"}

InitDispatch ==
    /\ triggers \in DispatchFiles
    /\ battery = BatteryData_new
    /\ hist = <<>>
    /\ fired = <<>>
    /\ dispatched = <<>>
    /\ config = NoModuleConfig
    /\ root = Root_new
    /\ inode_index = InodeIndexAfterNew
    /\ brightness = Brightness_new
    /\ sysfs = <<>>
    /\ trash = Trash_new
    /\ threads = [name \in ModuleNames |-> Thread_new]
    /\ events = <<>>
    /\ mounted = FALSE
    /\ aborted = FALSE
    /\ grafting = <<>>
    /\ req = Idle
    /\ reply = NoReply
    /\ calls = <<>>
    /\ ComponentInit

\* One call of find_all_and_execute.
Execute ==
    /\ dispatched = <<>>
    /\ \E kind \in DispatchKinds, path \in DispatchPaths,
          old_value \in DispatchValues, new_value \in DispatchValues :
           dispatched' = <<Dispatch(triggers, kind, path[1], path[2],
                                    old_value, new_value)>>
    /\ UNCHANGED component_vars
    /\ UNCHANGED <<triggers, battery, hist, fired, fs_vars>>

NextDispatch == Execute

SpecDispatch == InitDispatch /\ [][NextDispatch]_vars

(***************************************************************************)
(* Properties of the trigger rules                                         *)
(***************************************************************************)
\* A text that denotes a signed integer: an optional sign, then digits only,
\* at least one.
IsI64Text(s) ==
    LET signed == Len(s) > 0 /\ Char(s, 1) \in {"+", "-"}
        first == IF signed THEN 2 ELSE 1
    IN  /\ first <= Len(s)
        /\ \A i \in first..Len(s) : Char(s, i) \in Digits

\* The integer such a text denotes, read from its last digit backwards.
RECURSIVE Magnitude(_)
Magnitude(s) ==
    IF Len(s) = 0 \/ Char(s, Len(s)) \notin Digits THEN 0
    ELSE DigitValue(Char(s, Len(s))) + 10 * Magnitude(SubSeq(s, 1, Len(s) - 1))

I64Of(s) == IF Char(s, 1) = "-" THEN 0 - Magnitude(s) ELSE Magnitude(s)

\* Whether the step from value o to value n crosses the boundary t of a rule.
Crosses(operator, t, o, n) ==
    /\ IsI64Text(o)
    /\ IsI64Text(n)
    /\ IF operator = "LowerThan"
       THEN I64Of(o) >= I64Of(t) /\ I64Of(n) < I64Of(t)
       ELSE I64Of(o) <= I64Of(t) /\ I64Of(n) > I64Of(t)

\* The boundary crossings of rule in the values a battery entry has taken.
CrossingsOf(rule, entry) ==
    IF matches(rule, "Update", "/" \o BATTERY_MODULE_NAME \o "/" \o entry)
    THEN Cardinality({j \in 1..(Len(hist[entry]) - 1) :
                         Crosses(rule.operator, rule.value_to_compare,
                                 hist[entry][j], hist[entry][j + 1])})
    ELSE 0

\* C1: an Update rule with operator LowerThan or GreaterThan and an integer
\* threshold has run its command, at every moment, exactly as many times as
\* the entries it matches have crossed its boundary (from >= t to < t, resp.
\* from <= t to > t) in the values they have taken so far, the placeholder
\* "?" included; so it runs once per crossing and never while a value stays
\* past the threshold.
C1_OncePerCrossing ==
    \A i \in 1..Len(triggers) :
        (/\ triggers[i].kind = "Update"
         /\ triggers[i].operator \in {"LowerThan", "GreaterThan"}
         /\ IsI64Text(triggers[i].value_to_compare))
        => fired[i] = CrossingsOf(triggers[i], ENTRY_PLUGGED)
                      + CrossingsOf(triggers[i], ENTRY_PERCENT)
                      + CrossingsOf(triggers[i], ENTRY_TIME_REMAINING)

\* C1, reached: under the rule `U /battery/percent < 20` the percent entry has
\* taken the values ?, 25, 22, 18, 15, 22 and the command has run once.
C1_Witness ==
    /\ Len(triggers) > 0
    /\ triggers[1] = Trigger_new("U", "/battery/percent", "<", "20",
                                 "notify-send low")
    /\ hist[ENTRY_PERCENT] = <<"?", "25", "22", "18", "15", "22">>
    /\ fired[1] = 1

DispatchedPath(d) == "/" \o d.module \o "/" \o d.name

\* C2: for a LowerThan rule with literal t and an event of matching kind and
\* path with old value o and new value n, the command is executed if and only
\* if o, n and t are all integer texts and o >= t and n < t.
C2_LowerThanFiresIff ==
    \A k \in 1..Len(dispatched) : \A i \in 1..Len(triggers) :
        (/\ triggers[i].operator = "LowerThan"
         /\ matches(triggers[i], dispatched[k].kind,
                    DispatchedPath(dispatched[k])))
        => (i \in SeqRange(dispatched[k].executed)
            <=> /\ IsI64Text(dispatched[k].old_value)
                /\ IsI64Text(dispatched[k].new_value)
                /\ IsI64Text(triggers[i].value_to_compare)
                /\ I64Of(dispatched[k].old_value)
                       >= I64Of(triggers[i].value_to_compare)
                /\ I64Of(dispatched[k].new_value)
                       < I64Of(triggers[i].value_to_compare))

\* C2, reached: the rule `< 20` has executed on the event +20 -> -5.
C2_Witness ==
    /\ Len(dispatched) = 1
    /\ triggers[1].operator = "LowerThan"
    /\ triggers[1].value_to_compare = "20"
    /\ dispatched[1].old_value = "+20"
    /\ dispatched[1].new_value = "-5"
    /\ 1 \in SeqRange(dispatched[1].executed)

\* C3: for a GreaterThan rule with literal t and an event of matching kind and
\* path with old value o and new value n, the command is executed if and only
\* if o, n and t are all integer texts and o <= t and n > t.
C3_GreaterThanFiresIff ==
    \A k \in 1..Len(dispatched) : \A i \in 1..Len(triggers) :
        (/\ triggers[i].operator = "GreaterThan"
         /\ matches(triggers[i], dispatched[k].kind,
                    DispatchedPath(dispatched[k])))
        => (i \in SeqRange(dispatched[k].executed)
            <=> /\ IsI64Text(dispatched[k].old_value)
                /\ IsI64Text(dispatched[k].new_value)
                /\ IsI64Text(triggers[i].value_to_compare)
                /\ I64Of(dispatched[k].old_value)
                       <= I64Of(triggers[i].value_to_compare)
                /\ I64Of(dispatched[k].new_value)
                       > I64Of(triggers[i].value_to_compare))

\* C3, reached: the rule `> 20` has executed on the event 20 -> 25.
C3_Witness ==
    /\ Len(dispatched) = 1
    /\ triggers[2].operator = "GreaterThan"
    /\ triggers[2].value_to_compare = "20"
    /\ dispatched[1].old_value = "20"
    /\ dispatched[1].new_value = "25"
    /\ 2 \in SeqRange(dispatched[1].executed)

(***************************************************************************)
(* Properties of the callbacks. req, reply and calls describe the callback *)
(* that has just run; it changes nothing it reads, so the tree and the     *)
(* values of the state are the ones it saw.                                *)
(***************************************************************************)
Requested == find(root, req.ino)

IsReadableFile ==
    /\ Requested # <<>>
    /\ Requested[1].file_type = "RegularFile"
    /\ ~Requested[1].write_only

\* The current value of the requested file: the module's value for a file the
\* module owns, the module's json or shell text for those leaves.
RequestedValue ==
    LET owner == find_module(req.ino)
        custom == custom_owner(root, req.ino)
    IN  IF owner # <<>> THEN module_value(owner[1], req.ino)
        ELSE IF Requested[1].name = ENTRY_JSON THEN module_json(custom[1])
        ELSE module_shell(custom[1])

\* C4: a read of a readable regular file at an offset inside its value, whose
\* length is len, replies with the bytes offset .. min(offset + size, len) of
\* the value.
C4_ReadRepliesSlice ==
    (/\ req.op = "read"
     /\ IsReadableFile
     /\ 0 <= req.offset
     /\ req.offset < Len(RequestedValue))
    => /\ reply.kind = "data"
       /\ reply.body = SubSeq(RequestedValue, req.offset + 1,
                              Min(req.offset + req.size, Len(RequestedValue)))

\* C4, where the code departs: battery/plugged holds "true" and a read of two
\* bytes at offset 1 is answered with one byte.
C4_ShortRead ==
    /\ req.op = "read"
    /\ req.ino = Battery_inode_plugged
    /\ IsReadableFile
    /\ RequestedValue = VALUE_TRUE
    /\ req.offset = 1
    /\ req.size = 2
    /\ reply = ReplyData("r")

\* C5: a read of a readable regular file at an offset at or beyond the length
\* of its value is answered with an empty data reply.
C5_ReadPastEndRepliesEmpty ==
    (/\ req.op = "read"
     /\ IsReadableFile
     /\ req.offset >= Len(RequestedValue))
    => /\ reply.kind = "data"
       /\ reply.body = ""

\* C5, where the code departs: such a read has returned without any reply.
C5_NoReply ==
    /\ req.op = "read"
    /\ IsReadableFile
    /\ req.offset >= Len(RequestedValue)
    /\ reply = NoReply
    /\ Len(calls) = 1

\* C6: a read of an entry marked write-only is answered ENOENT and no module
\* accessor is called; a write to an entry not marked write-only is answered
\* ENOENT and set_value is not called.
C6_ModeRejects ==
    /\ (req.op = "read" /\ Requested # <<>> /\ Requested[1].write_only)
       => (reply = ReplyError(ENOENT) /\ calls = <<>>)
    /\ (req.op = "write" /\ Requested # <<>> /\ ~Requested[1].write_only)
       => (reply = ReplyError(ENOENT) /\ calls = <<>>)

\* C6, reached: a read of trash/empty, grafted and write-only, was refused.
C6_Witness ==
    /\ req.op = "read"
    /\ req.ino = Trash_inode_empty
    /\ Requested # <<>>
    /\ Requested[1].write_only
    /\ reply = ReplyError(ENOENT)

\* What C7 asks of the callback that has just run.
WriteDelivered ==
    (/\ req.op = "write"
     /\ Requested # <<>>
     /\ Requested[1].write_only
     /\ find_module(req.ino) # <<>>)
    => /\ calls = <<[fn |-> "set_value", module |-> find_module(req.ino)[1],
                     inode |-> req.ino, data |-> req.data]>>
       /\ reply.kind = "written"
       /\ reply.body = Len(req.data)

\* C7: a write to a write-only entry a module owns calls that module's
\* set_value once, with the entry's id and the whole data whatever the offset,
\* and replies with the length of the data; the step leaves the tree and the
\* inode counter as they were.
C7_WriteDeliversWholeData ==
    [][(req.op = "idle" /\ req'.op = "write")
          => (WriteDelivered' /\ root' = root /\ inode_index' = inode_index)]_vars

\* C7, reached: "true\n" written to trash/empty at offset 1 was delivered whole
\* and five bytes were acknowledged.
C7_Witness ==
    /\ req.op = "write"
    /\ req.ino = Trash_inode_empty
    /\ Requested # <<>>
    /\ req.offset = 1
    /\ req.data = "true\n"
    /\ Len(calls) = 1
    /\ calls[1].data = "true\n"
    /\ reply = [kind |-> "written", body |-> 5]
    /\ trash.files = <<>>

IsDirectory == Requested # <<>> /\ Requested[1].file_type = "Directory"

\* The names a listing of the requested directory goes through.
ListedNames ==
    <<".", "..">> \o [i \in 1..Len(Requested[1].fs_entries) |->
                         Requested[1].fs_entries[i].name]

NoModuleEnabled == \A name \in DOMAIN config : config[name].enabled # Some(TRUE)

\* C8: readdir of an existing directory at offset k >= 0 emits, in order, the
\* entries at positions k, k+1, ... of ['.', '..', children in stored order],
\* a child with its own id and kind, each with next-offset its position + 1; a
\* readdir resumed at any returned next-offset emits exactly the entries that
\* followed; and with no enabled module the root lists only '.' and '..'.
C8_ReaddirFromOffset ==
    (req.op = "readdir" /\ IsDirectory /\ req.offset >= 0)
    => /\ reply.kind = "directory"
       /\ Len(reply.body) = IF req.offset >= Len(ListedNames) THEN 0
                            ELSE Len(ListedNames) - req.offset
       /\ \A j \in 1..Len(reply.body) :
              /\ reply.body[j].name = ListedNames[req.offset + j]
              /\ reply.body[j].offset = (req.offset + j - 1) + 1
              /\ req.offset + j > 2 =>
                     LET child == Requested[1].fs_entries[req.offset + j - 2]
                     IN  /\ reply.body[j].ino = child.inode
                         /\ reply.body[j].kind = child.file_type
              /\ Fs_readdir(root, req.ino, reply.body[j].offset).body
                     = SubSeq(reply.body, j + 1, Len(reply.body))
       /\ (NoModuleEnabled /\ req.ino = INODE_ROOT /\ req.offset = 0)
              => [j \in 1..Len(reply.body) |-> reply.body[j].name] = <<".", "..">>

\* C8, reached: the root, holding two module directories, listed from offset 2.
C8_Witness ==
    /\ req.op = "readdir"
    /\ req.ino = INODE_ROOT
    /\ req.offset = 2
    /\ reply.kind = "directory"
    /\ Len(reply.body) = 2
    /\ reply.body[1].name = BATTERY_MODULE_NAME
    /\ reply.body[1].offset = 3
    /\ reply.body[2].name = TRASH_MODULE_NAME
    /\ reply.body[2].offset = 4

\* C9: the '.' and '..' entries readdir emits for a directory carry the id of
\* that directory.
C9_DotEntriesCarryDirId ==
    (req.op = "readdir" /\ IsDirectory /\ reply.kind = "directory")
    => \A j \in 1..Len(reply.body) :
           reply.body[j].name \in {".", ".."} => reply.body[j].ino = req.ino

\* C9, where the code departs: a module directory was listed and its '.' and
\* '..' carry the root's id.
C9_DotEntriesCarryRoot ==
    /\ req.op = "readdir"
    /\ IsDirectory
    /\ req.ino # INODE_ROOT
    /\ req.offset = 0
    /\ reply.kind = "directory"
    /\ reply.body[1].name = "." /\ reply.body[1].ino = INODE_ROOT
    /\ reply.body[2].name = ".." /\ reply.body[2].ino = INODE_ROOT

\* C10: readdir of an id that resolves to no entry of the tree is answered
\* ENOENT and emits no entry.
C10_ReaddirUnknownIsENOENT ==
    (req.op = "readdir" /\ Requested = <<>>)
    => /\ reply.kind = "error"
       /\ reply.body = ENOENT

\* C10, where the code departs: an id that resolves to nothing was listed, '.'
\* and '..' were emitted and the reply closed as a success.
C10_UnknownListed ==
    /\ req.op = "readdir"
    /\ Requested = <<>>
    /\ req.offset = 0
    /\ reply.kind = "directory"
    /\ Len(reply.body) = 2

(***************************************************************************)
(* Lookup, attributes and sizes                                            *)
(***************************************************************************)
\* The entries named name of the subtree of the entry parent resolves to, in
\* pre-order; empty when parent resolves to nothing.
NamedUnder(parent, name) ==
    LET parent_entry == find(root, parent)
    IN  IF parent_entry = <<>> THEN <<>>
        ELSE SelectSeq(Flatten(parent_entry[1]), LAMBDA e : e.name = name)

\* C11: a lookup replies with the attributes of the first entry named name in
\* the pre-order walk of parent's subtree, and with ENOENT when parent
\* resolves to nothing or no entry of the subtree has the name.
C11_LookupResolvesPreOrder ==
    req.op = "lookup"
    => LET named == NamedUnder(req.ino, req.data)
       IN  IF named = <<>>
           THEN reply = ReplyError(ENOENT)
           ELSE /\ reply.kind = "entry"
                /\ reply.body.ino = named[1].inode
                /\ reply.body.kind = named[1].file_type
                /\ reply.body.perm = attrs(named[1], 0).perm
                /\ reply.body.nlink = attrs(named[1], 0).nlink
                /\ reply.body.blocks = attrs(named[1], 0).blocks

\* C11, where the code departs: the root was asked for a json leaf that a
\* module directory below it holds, and the reply is ENOENT.
C11_LeafBelowRootIsENOENT ==
    /\ req.op = "lookup"
    /\ req.ino = INODE_ROOT
    /\ req.data = ENTRY_JSON
    /\ NamedUnder(INODE_ROOT, ENTRY_JSON) # <<>>
    /\ reply = ReplyError(ENOENT)

\* What a read of the whole value of a file replies with: the bytes, or the
\* empty text when the value is empty and the read is left unanswered.
ReadWouldReturn(ino) ==
    LET whole == Fs_read(ino, 0, 4096).reply
    IN  IF whole.kind = "data" THEN whole.body ELSE ""

\* C12: the size that getattr, setattr or a lookup reports for a readable
\* regular file is the byte length of what a read of it returns, whatever
\* parent the lookup started from; and getattr reports a size for every
\* such file of the tree.
C12_SizeIsReadLength ==
    /\ (/\ req.op \in {"lookup", "getattr", "setattr"}
        /\ reply.kind \in {"entry", "attr"}
        /\ reply.body.kind = "RegularFile"
        /\ ~find(root, reply.body.ino)[1].write_only)
       => /\ Fs_read(reply.body.ino, 0, 4096).reply.kind \in {"data", "none"}
          /\ reply.body.size = Len(ReadWouldReturn(reply.body.ino))
    /\ (/\ req.op = "getattr"
        /\ Requested # <<>>
        /\ Requested[1].file_type = "RegularFile")
       => /\ reply.kind = "attr"
          /\ reply.body.ino = req.ino

\* C12: a module directory was asked for its json leaf and the reply carries
\* the length of the module's json text.
C12_Witness ==
    /\ req.op = "lookup"
    /\ req.data = ENTRY_JSON
    /\ reply.kind = "entry"
    /\ reply.body.kind = "RegularFile"
    /\ reply.body.size > 1
    /\ reply.body.size = Len(ReadWouldReturn(reply.body.ino))

(***************************************************************************)
(* Grafting: what the callbacks see of it, and what it leaves behind       *)
(***************************************************************************)
Enabled(name) == name \in DOMAIN config /\ config[name].enabled = Some(TRUE)

\* The directories the root holds for a module.
ModuleDirs(name) == SelectSeq(root.fs_entries, LAMBDA e : e.name = name)

\* The leaves the configuration asks for under a module's directory.
ConfiguredLeaves(name) ==
    (IF config[name].json # None /\ config[name].json[1].enabled = Some(TRUE)
     THEN <<ENTRY_JSON>> ELSE <<>>)
    \o (IF config[name].shell # None
           /\ config[name].shell[1].enabled = Some(TRUE)
        THEN <<ENTRY_SHELL>> ELSE <<>>)

\* dir is a whole graft of the module: the module's fields, as fs_entries()
\* gives them now or, for the one module that rebuilds them, gave them before
\* the rebuild, followed by the configured leaves.
IsWholeGraft(name, dir) ==
    LET leaves == ConfiguredLeaves(name)
        fields == Len(dir.fs_entries) - Len(leaves)
    IN  /\ dir.file_type = "Directory"
        /\ fields >= 0
        /\ [k \in 1..Len(leaves) |-> dir.fs_entries[fields + k].name] = leaves
        /\ \A k \in 1..Len(leaves) :
               dir.fs_entries[fields + k].file_type = "RegularFile"
        /\ \/ SubSeq(dir.fs_entries, 1, fields) = module_fs_entries(name)
           \/ name = BRIGHTNESS_MODULE_NAME /\ fields = 0

\* Every enabled module has one whole directory under the root, and the root
\* holds nothing else.
TreeIsWhole ==
    /\ \A name \in ModuleNames :
           IF Enabled(name)
           THEN /\ Len(ModuleDirs(name)) = 1
                /\ IsWholeGraft(name, ModuleDirs(name)[1])
           ELSE ModuleDirs(name) = <<>>
    /\ \A k \in 1..Len(root.fs_entries) : root.fs_entries[k].name \in ModuleNames

\* C13: a callback that has just replied ran on a tree in which every enabled
\* module is grafted whole, never on one a regraft has taken a directory out
\* of; a readdir of the root lists every enabled module.
C13_CallbackSeesWholeGrafts ==
    req.op # "idle"
    => /\ TreeIsWhole
       /\ (req.op = "readdir" /\ req.ino = INODE_ROOT /\ req.offset = 0)
          => \A name \in ModuleNames :
                 Enabled(name)
                 <=> \E k \in 1..Len(reply.body) : reply.body[k].name = name

\* C13: a regraft has been completed and the next callback lists the root.
C13_Witness ==
    /\ req.op = "readdir"
    /\ req.ino = INODE_ROOT
    /\ req.offset = 0
    /\ Enabled(BRIGHTNESS_MODULE_NAME)
    /\ brightness.fs_entries # <<>>
    /\ ModuleDirs(BRIGHTNESS_MODULE_NAME)[1].fs_entries # <<>>
    /\ ModuleDirs(BRIGHTNESS_MODULE_NAME)[1].fs_entries[1].name = "bl0"

\* The filesystem with the event thread scheduled fairly: it is a thread of
\* its own that sleeps in recv() or on the backend mutex, and it is given the
\* mutex and the processor whenever it has waited for them long enough.
SpecFair ==
    /\ Init
    /\ [][Next]_vars
    /\ WF_vars(ConsumeEvent)
    /\ WF_vars(GraftComplete)

\* The step with which the event thread finishes the handling of a
\* ModuleUpdated that named the module to regraft.
Grafted(name) == grafting = <<name>> /\ grafting' = <<>>

\* What a graft of the module under the identifier inode puts below it: what
\* fs_entries() returns, then the configured leaves.
GraftOf(name, inode) ==
    register_custom_entries(config[name],
        FsEntry_new(inode, "Directory", name, FALSE, module_fs_entries(name)),
        inode).entry.fs_entries

\* C14: while the process lives, a ModuleUpdated on the bus is eventually taken
\* off it and its handling finished; when it is, the root holds one directory
\* for the module, made of the fs_entries() read at that step followed by the
\* configured leaves, and the module has a running worker; and that directory
\* stays as it is until mount or the next regraft, so every later callback
\* sees it.
C14_UpdateIsEventuallyGrafted ==
    /\ \A name \in ModuleNames :
           (events # <<>> /\ Head(events) = name /\ Enabled(name))
           ~> \/ aborted
              \/ /\ events = <<>>
                 /\ grafting = <<>>
                 /\ Len(ModuleDirs(name)) = 1
                 /\ ModuleDirs(name)[1].fs_entries
                      = GraftOf(name, ModuleDirs(name)[1].inode)
                 /\ threads[name].alive = 1
    /\ [][\A name \in ModuleNames :
            Grafted(name)
            => /\ Len(ModuleDirs(name)') = 1
               /\ ModuleDirs(name)'[1].fs_entries
                    = GraftOf(name, ModuleDirs(name)'[1].inode)
               /\ threads'[name].running
               /\ threads'[name].alive = 1]_vars
    /\ [][(mounted /\ grafting = <<>> /\ grafting' = <<>>)
          => root' = root]_vars

\* C14: the brightness module was regrafted with its device, its new worker has
\* settled in its watch loop, and a callback has read the device's value.
C14_Witness ==
    /\ req.op = "read"
    /\ reply.kind = "data"
    /\ find_module(req.ino) = Some(BRIGHTNESS_MODULE_NAME)
    /\ events = <<>>
    /\ brightness.watching
    /\ threads[BRIGHTNESS_MODULE_NAME].alive = 1

(***************************************************************************)
(* Every callback answers                                                  *)
(***************************************************************************)
\* C15: a callback that has run completed with exactly one reply, a result or
\* an error, and the process is still there to serve the next one.
C15_EveryCallbackRepliesOnce ==
    req.op # "idle"
    => /\ reply.kind \in {"data", "written", "directory", "entry", "attr",
                          "error"}
       /\ reply.kind = "error" => reply.body = ENOENT
       /\ ~aborted

\* C15, where the code departs: a read at an offset inside the value of a
\* readable file and above the requested size panicked in the slice, and no
\* callback is served any more.
C15_ReadPanics ==
    /\ req.op = "read"
    /\ IsReadableFile
    /\ req.offset < Len(RequestedValue)
    /\ req.offset > req.size
    /\ reply = ReplyPanic
    /\ aborted
    /\ ~ENABLED Getattr

(***************************************************************************)
(* Identifiers and names in the tree                                       *)
(***************************************************************************)
\* C16: no two distinct entries reachable from the root carry the same
\* identifier, after mount and after any number of regrafts: the entries are
\* as many as their identifiers.
C16_IdentifiersAreUnique ==
    \E flat \in {Flatten(root)} :
        Cardinality({entry.inode : entry \in SeqRange(flat)}) = Len(flat)

\* C16: the tree after a regraft that brought a device's four fields under the
\* brightness directory, next to another module's directory.
C16_Witness ==
    /\ mounted
    /\ grafting = <<>>
    /\ Len(root.fs_entries) >= 2
    /\ ModuleDirs(BRIGHTNESS_MODULE_NAME) # <<>>
    /\ Len(Flatten(ModuleDirs(BRIGHTNESS_MODULE_NAME)[1])) >= 6

\* The identifiers of the children of a graft that are its leaves.
LeafInodes(name, dir) ==
    LET leaves == Len(ConfiguredLeaves(name))
        fields == Len(dir.fs_entries) - leaves
    IN  [k \in 1..leaves |-> dir.fs_entries[fields + k].inode]

\* The values create_inode returned while register_module grafted dir.
GraftInodes(dir) == <<dir.inode>> \o LeafInodes(dir.name, dir)

RECURSIVE GraftInodesOfAll(_, _)
GraftInodesOfAll(dirs, k) ==
    IF k > Len(dirs) THEN <<>>
    ELSE GraftInodes(dirs[k]) \o GraftInodesOfAll(dirs, k + 1)

\* The identifiers of a list of entries and of all below them, in pre-order,
\* which is the order in which the constructors and build_filesystem ask for
\* them.
InodesOf(entries) ==
    LET flat == FlattenAll(entries, 1)
    IN  [k \in 1..Len(flat) |-> flat[k].inode]

\* The values the modules' constructors were given, in the order main builds
\* the modules.
ConstructorInodes ==
    InodesOf(Cpu_fs_entries) \o InodesOf(Battery_fs_entries)
        \o InodesOf(Trash_fs_entries)

\* from, then the values, are strictly increasing.
IncreasingFrom(from, values) ==
    \A k \in 1..Len(values) :
        values[k] > (IF k = 1 THEN from ELSE values[k - 1])

\* The values create_inode returns in a step, in the order of the calls, given
\* the step's kind.
ReturnedInStep(created) ==
    /\ IncreasingFrom(inode_index, created)
    /\ inode_index' = (IF created = <<>> THEN inode_index
                       ELSE created[Len(created)])
    /\ \A k \in 1..Len(created) :
           created[k] \notin {INODE_INVALID, INODE_ROOT}

ChildNames(entry) == [k \in 1..Len(entry.fs_entries) |-> entry.fs_entries[k].name]

\* C18: no directory of the tree has two children of the same name: the root
\* holds at most one directory for a module, and a module's directory at most
\* one json and one shell leaf.
C18_SiblingNamesAreUnique ==
    \E flat \in {Flatten(root)} :
        \A k \in 1..Len(flat) :
            \E names \in {ChildNames(flat[k])} :
                Cardinality(SeqRange(names)) = Len(names)

\* C18: a module has been regrafted, and its directory, the only one of that
\* name under the root, holds both a field directory and a leaf.
C18_Witness ==
    /\ mounted
    /\ grafting = <<>>
    /\ brightness.watching
    /\ Len(ModuleDirs(BRIGHTNESS_MODULE_NAME)) = 1
    /\ Len(ModuleDirs(BRIGHTNESS_MODULE_NAME)[1].fs_entries) = 2
    /\ Len(root.fs_entries) >= 2

\* The tree, the counter and the threads, as register_module takes them.
BackendState == [root |-> root, inode_index |-> inode_index, threads |-> threads]

\* The names a ModuleUpdated may carry: the modules and a name no module has.
EventNames == ModuleNames \cup {"nosuch"}

\* C19: a module has a directory under the root, or a thread that was ever
\* started, only if the configuration has an entry for it with enabled = true;
\* and handling a ModuleUpdated that names a module without such an entry, or
\* no module at all, changes neither the tree nor any thread.
C19_OnlyEnabledModulesAreGrafted ==
    /\ \A name \in ModuleNames :
           (ModuleDirs(name) # <<>> \/ threads[name] # Thread_new)
           => Enabled(name)
    /\ \A k \in 1..Len(root.fs_entries) : Enabled(root.fs_entries[k].name)
    /\ \E st \in {BackendState} :
           \A name \in EventNames :
               ~Enabled(name)
               => /\ register_module_by_name(config, name, st) = st
                  /\ name \in ModuleNames
                     => unregister_module(config, name, st)
                          = [st |-> st, proceed |-> FALSE]

\* C19: mounted under the configuration that holds battery without an enabled
\* flag and has no entry for brightness, with the enabled trash module grafted
\* and running.
C19_Witness ==
    /\ mounted
    /\ BATTERY_MODULE_NAME \in DOMAIN config
    /\ config[BATTERY_MODULE_NAME].enabled = None
    /\ BRIGHTNESS_MODULE_NAME \notin DOMAIN config
    /\ ModuleDirs(TRASH_MODULE_NAME) # <<>>
    /\ threads[TRASH_MODULE_NAME].alive = 1
    /\ ModuleDirs(BATTERY_MODULE_NAME) = <<>>
    /\ threads[BATTERY_MODULE_NAME] = Thread_new
    /\ ModuleDirs(BRIGHTNESS_MODULE_NAME) = <<>>
    /\ threads[BRIGHTNESS_MODULE_NAME] = Thread_new

(***************************************************************************)
(* Candidate rules                                                         *)
(***************************************************************************)
\* pattern, read as a regular expression, matches somewhere in text; a pattern
\* that is no regular expression matches nothing.
RegexMatches(pattern, text) == regex_new_ok(pattern) /\ is_match(pattern, text)

\* The rules that the statement of C20 makes candidates for the event d.
EitherWay(trigger, d) ==
    /\ trigger.kind = d.kind
    /\ \/ RegexMatches(trigger.path, DispatchedPath(d))
       \/ RegexMatches(DispatchedPath(d), trigger.path)

\* The same, for rules whose pattern is a regular expression only.
EitherWayIfCompiles(trigger, d) ==
    /\ regex_new_ok(trigger.path)
    /\ EitherWay(trigger, d)

\* C20 as stated: a rule is executed only if its kind is the event's and its
\* pattern matches the event's path or the path, as a pattern, matches the
\* rule's pattern text; and such a rule with operator `*` is executed whatever
\* the old and new values are.
C20_CandidateEitherWay ==
    \A k \in 1..Len(dispatched) : \A i \in 1..Len(triggers) :
        /\ i \in SeqRange(dispatched[k].executed)
           => EitherWay(triggers[i], dispatched[k])
        /\ (triggers[i].operator = "None"
            /\ EitherWay(triggers[i], dispatched[k]))
           => i \in SeqRange(dispatched[k].executed)

\* C20, amended: the same for the rules whose pattern compiles; a rule whose
\* pattern does not compile is never executed.
C20_CandidateEitherWayIfCompiles ==
    \A k \in 1..Len(dispatched) : \A i \in 1..Len(triggers) :
        /\ i \in SeqRange(dispatched[k].executed)
           => EitherWayIfCompiles(triggers[i], dispatched[k])
        /\ (triggers[i].operator = "None"
            /\ EitherWayIfCompiles(triggers[i], dispatched[k]))
           => i \in SeqRange(dispatched[k].executed)

\* C20: the rule `C /trash/count/all *`, which only the path read as a pattern
\* reaches, has executed on a creation of /trash/count with values that are no
\* numbers, and the rule of the same list whose pattern does not compile has
\* not.
C20_Witness ==
    /\ Len(dispatched) = 1
    /\ dispatched[1].kind = "Create"
    /\ DispatchedPath(dispatched[1]) = "/trash/count"
    /\ dispatched[1].old_value = "?"
    /\ dispatched[1].new_value = "2x"
    /\ Len(triggers) = 7
    /\ triggers[6].operator = "None"
    /\ ~is_match(triggers[6].path, "/trash/count")
    /\ 6 \in SeqRange(dispatched[1].executed)
    /\ 7 \notin SeqRange(dispatched[1].executed)

(***************************************************************************)
(* find_all_and_execute with execute() taken one piece at a time: one      *)
(* event against a rule file whose commands vary.                          *)
(***************************************************************************)
FsAtRest ==
    /\ config = NoModuleConfig
    /\ root = Root_new
    /\ inode_index = InodeIndexAfterNew
    /\ brightness = Brightness_new
    /\ sysfs = <<>>
    /\ trash = Trash_new
    /\ threads = [name \in ModuleNames |-> Thread_new]
    /\ events = <<>>
    /\ mounted = FALSE
    /\ aborted = FALSE
    /\ grafting = <<>>
    /\ req = Idle
    /\ reply = NoReply
    /\ calls = <<>>

\* The command texts of the rule files: the fifth capture of load_file's
\* line pattern, which may be empty.
ExecuteCommands ==
    {"true", "true;false;true", "false;true", "nosuch;true", "true a;true",
     "true \"a;b\";true", "true;", "", "true; ;true"}

ExecuteFiles ==
    { <<Trigger_new("U", "/battery/percent", "<", "20", first),
        Trigger_new("C", "/battery/percent", "*", "*", "true"),
        Trigger_new("U", "/battery/percent", "*", "*", second)>> :
          first \in ExecuteCommands, second \in ExecuteCommands }

ExecuteValues == {"15", "25"}

InitExecute ==
    /\ triggers \in ExecuteFiles
    /\ battery = BatteryData_new
    /\ hist = <<>>
    /\ fired = <<>>
    /\ dispatched = <<>>
    /\ FsAtRest
    /\ ComponentInit

\* A line of the execution log.
Logged(rule, piece, what) == [rule |-> rule, piece |-> piece, what |-> what]

\* The sampler calls find_all_and_execute: the rules that pass the tests are
\* the ones execute() is to be called on.
ExecuteCall ==
    /\ execution.state = "idle"
    /\ \E old_value \in ExecuteValues, new_value \in ExecuteValues :
           \E call \in {Dispatch(triggers, "Update", BATTERY_MODULE_NAME,
                                 ENTRY_PERCENT, old_value, new_value)} :
               /\ dispatched' = <<call>>
               /\ execution' = [NoExecution EXCEPT !.state = "running",
                                                   !.rules = call.executed]
    /\ UNCHANGED <<sampler, workers, caller, cpu, callback>>
    /\ UNCHANGED <<triggers, battery, hist, fired, fs_vars>>

\* The loop of find_all_and_execute reaches its next passing rule and enters
\* execute(), which splits the command on ";"; or the loop is over and the
\* call returns to the sampler.
ExecuteEnter ==
    /\ execution.state = "running"
    /\ execution.rule = 0
    /\ execution' =
           IF execution.rules = <<>>
           THEN [execution EXCEPT !.state = "returned"]
           ELSE [execution EXCEPT
                    !.rule = Head(execution.rules),
                    !.rules = Tail(execution.rules),
                    !.pieces = split(triggers[Head(execution.rules)].command,
                                     ";"),
                    !.piece = 1]
    /\ UNCHANGED <<sampler, workers, caller, cpu, callback>>
    /\ UNCHANGED <<trigger_vars, fs_vars>>

\* execute() is left, the lines being added to the log; an Err is logged by
\* find_all_and_execute, which goes on with the next rule.
ExecuteLeave(lines) ==
    [execution EXCEPT
        !.rule = 0, !.pieces = <<>>, !.piece = 0, !.child = <<>>,
        !.log = execution.log \o lines]

\* One turn of the loop of execute() up to the spawn: the piece is split in
\* words, split_off(1) takes the arguments off (and panics on no word at
\* all), and the program is spawned.
ExecuteSpawn ==
    /\ execution.state = "running"
    /\ execution.rule # 0
    /\ execution.child = <<>>
    /\ \E parsed_command \in
              {shellwords_split(execution.pieces[execution.piece])} :
           execution' =
               IF ~parsed_command.ok
               THEN ExecuteLeave(
                        <<Logged(execution.rule, execution.piece,
                                 "Cannot split command"),
                          Logged(execution.rule, execution.piece, "logged")>>)
               ELSE IF Len(parsed_command.words) < 1
               THEN [execution EXCEPT
                        !.state = "panicked",
                        !.log = Append(execution.log,
                                    Logged(execution.rule, execution.piece,
                                           "panic"))]
               ELSE IF ~Command_output(parsed_command.words[1]).spawned
               THEN ExecuteLeave(
                        <<Logged(execution.rule, execution.piece,
                                 "Cannot execute command"),
                          Logged(execution.rule, execution.piece, "logged")>>)
               ELSE [execution EXCEPT
                        !.child = <<parsed_command.words[1]>>,
                        !.log = Append(execution.log,
                                    Logged(execution.rule, execution.piece,
                                           "started"))]
    /\ UNCHANGED <<sampler, workers, caller, cpu, callback>>
    /\ UNCHANGED <<trigger_vars, fs_vars>>

\* output.status.success(), and a reading that takes every exit for one.
ExitStatus_success_whatever(output) == TRUE

ExitStatus_success(output) == output.success

\* output() returns when the child has exited, which a child that reads a
\* file does once its read has been answered: a failure ends execute(), a
\* success moves to the next piece or ends execute() after the last one.
ExecuteWait ==
    /\ execution.state = "running"
    /\ execution.child # <<>>
    /\ Command_reads(execution.child[1])
           => callback.reader = "child" /\ callback.pc = "replied"
    /\ callback' = IF Command_reads(execution.child[1])
                   THEN NoCallback ELSE callback
    /\ \E output \in {IF Command_reads(execution.child[1])
                       THEN [Command_output(execution.child[1]) EXCEPT
                                !.success = callback.reply = "data"]
                       ELSE Command_output(execution.child[1])} :
           \E exited \in {Logged(execution.rule, execution.piece,
                                 IF output.success THEN "exit 0"
                                 ELSE "exit 1")} :
               execution' =
                   IF ~ExitStatus_success(output)
                   THEN ExecuteLeave(
                            <<exited,
                              Logged(execution.rule, execution.piece,
                                     "Command is not successful"),
                              Logged(execution.rule, execution.piece,
                                     "logged")>>)
                   ELSE IF execution.piece = Len(execution.pieces)
                   THEN ExecuteLeave(<<exited>>)
                   ELSE [execution EXCEPT
                            !.piece = execution.piece + 1,
                            !.child = <<>>,
                            !.log = Append(execution.log, exited)]
    /\ UNCHANGED <<sampler, workers, caller, cpu>>
    /\ UNCHANGED <<trigger_vars, fs_vars>>

NextExecute == ExecuteCall \/ ExecuteEnter \/ ExecuteSpawn \/ ExecuteWait

SpecExecute == InitExecute /\ [][NextExecute]_vars

(***************************************************************************)
(* Properties of Trigger::execute                                          *)
(***************************************************************************)
\* The k-th text of s between separators ";", found by counting them.
PieceOf(s, k) ==
    LET seps == {i \in 1..Len(s) : Char(s, i) = ";"}
        nth(n) == CHOOSE i \in seps : Cardinality({j \in seps : j < i}) = n - 1
        from == IF k = 1 THEN 1 ELSE nth(k - 1) + 1
        to == IF k > Cardinality(seps) THEN Len(s) ELSE nth(k) - 1
    IN  SubSeq(s, from, to)

\* s without its leading blanks.
RECURSIVE TrimLeft(_)
TrimLeft(s) ==
    IF Len(s) > 0 /\ Char(s, 1) = " " THEN TrimLeft(SubSeq(s, 2, Len(s)))
    ELSE s

StartsWith(s, prefix) ==
    Len(prefix) <= Len(s) /\ SubSeq(s, 1, Len(prefix)) = prefix

\* The ways a piece fails.
PieceFailures ==
    {"exit 1", "Cannot split command", "Cannot execute command"}

\* C21: executing a rule runs the pieces of its command, the texts between
\* the ";", in order and one at a time: the program that runs is the one the
\* current piece names; the first piece is started before anything else of
\* the rule; a later piece is started right after the piece before it has
\* exited with success; what follows the start of a piece is its exit; and
\* once a piece has exited non-zero, could not be split in words or could
\* not be spawned, no piece of that rule is started any more.
C21_PiecesInOrderUntilFailure ==
    LET log == execution.log
    IN  /\ \A i \in 1..Len(log) :
               /\ log[i].what = "started" =>
                      /\ IF log[i].piece = 1
                         THEN \A j \in 1..(i - 1) : log[j].rule # log[i].rule
                         ELSE /\ i > 1
                              /\ log[i - 1] = Logged(log[i].rule,
                                                     log[i].piece - 1,
                                                     "exit 0")
                      /\ i < Len(log) =>
                             /\ log[i + 1].rule = log[i].rule
                             /\ log[i + 1].piece = log[i].piece
                             /\ log[i + 1].what \in {"exit 0", "exit 1"}
                      /\ i = Len(log) => execution.child # <<>>
               /\ log[i].what \in PieceFailures =>
                      \A j \in (i + 1)..Len(log) :
                          log[j].what = "started" => log[j].rule # log[i].rule
        /\ execution.child # <<>> =>
               StartsWith(TrimLeft(PieceOf(triggers[execution.rule].command,
                                           execution.piece)),
                          execution.child[1])

\* The first rule's command is true;false;true, and the call has returned
\* with its first piece run with success, its second one failed and its third
\* one never started.
C21_Witness ==
    /\ execution.state = "returned"
    /\ triggers[1].command = "true;false;true"
    /\ \E i \in 1..Len(execution.log) :
           execution.log[i] = Logged(1, 1, "exit 0")
    /\ \E i \in 1..Len(execution.log) :
           execution.log[i] = Logged(1, 2, "exit 1")
    /\ \A i \in 1..Len(execution.log) :
           execution.log[i].rule = 1 => execution.log[i].piece < 3

\* C22: a failing rule never stops the sampler: whatever the command text,
\* the call of find_all_and_execute does not end by a panic, and when it has
\* returned to the sampler every rule that passed the tests has been
\* evaluated, its failure, if any, logged as an error.
C22_FailureNeverStopsTheSampler ==
    /\ execution.state # "panicked"
    /\ execution.state = "returned" =>
           \A r \in SeqRange(dispatched[1].executed) :
               \E i \in 1..Len(execution.log) : execution.log[i].rule = r

\* The first rule's command is "true;" and the event makes both rules pass:
\* after the piece true has exited with success, the empty piece after the
\* ";" has no word, split_off(1) panics, and the third rule, which passed the
\* tests, is never evaluated.
C22_EmptyPiecePanics ==
    /\ execution.state = "panicked"
    /\ execution.rule = 1
    /\ triggers[1].command = "true;"
    /\ execution.piece = 2
    /\ dispatched[1].executed = <<1, 3>>
    /\ execution.rules = <<3>>
    /\ \A i \in 1..Len(execution.log) : execution.log[i].rule # 3

(***************************************************************************)
(* Trash::set_value on its own: writes of any data on a trash that holds   *)
(* files and directories.                                                  *)
(***************************************************************************)
\* What Trash/files and Trash/info may hold at the start.
TrashFilesChoices ==
    { <<>>,
      <<TrashFile("a")>>,
      <<TrashDir("d", <<>>), TrashFile("a")>>,
      <<TrashFile("a"),
        TrashDir("d", <<TrashFile("x"), TrashDir("e", <<TrashFile("y")>>)>>),
        TrashFile("b")>> }

TrashInfoChoices ==
    { <<>>, <<TrashFile("a.trashinfo"), TrashFile("d.trashinfo")>> }

\* The data of a write, the four emptying ones and others close to them.
TrashWrites ==
    {"1", "1\n", "true", "true\n", "0", "", "11", "True", "1 ", "\n",
     "true\n\n", "1\ntrue"}

InitTrash ==
    /\ triggers = <<>>
    /\ battery = BatteryData_new
    /\ hist = <<>>
    /\ fired = <<>>
    /\ dispatched = <<>>
    /\ config = NoModuleConfig
    /\ root = Root_new
    /\ inode_index = InodeIndexAfterNew
    /\ brightness = Brightness_new
    /\ sysfs = <<>>
    /\ \E files \in TrashFilesChoices, info \in TrashInfoChoices :
           trash = [Trash_new EXCEPT !.files = files, !.info = info]
    /\ threads = [name \in ModuleNames |-> Thread_new]
    /\ events = <<>>
    /\ mounted = FALSE
    /\ aborted = FALSE
    /\ grafting = <<>>
    /\ req = Idle
    /\ reply = NoReply
    /\ calls = <<>>
    /\ ComponentInit

\* One call of Trash::set_value; calls keeps the call and the trash it found.
TrashSetValue ==
    /\ \E inode \in {Trash_inode_count, Trash_inode_empty},
          data \in TrashWrites :
           /\ req' = [Idle EXCEPT !.op = "set_value", !.ino = inode,
                                  !.size = Len(data), !.data = data]
           /\ calls' = <<[fn |-> "set_value", module |-> TRASH_MODULE_NAME,
                          inode |-> inode, data |-> data, found |-> trash]>>
           /\ trash' = Trash_set_value(trash, inode, data)
    /\ UNCHANGED component_vars
    /\ UNCHANGED <<trigger_vars, config, root, inode_index, brightness, sysfs,
                   threads, events, mounted, aborted, grafting, reply>>

NextTrash == TrashSetValue \/ TrashFileAdded

SpecTrash == InitTrash /\ [][NextTrash]_vars

\* C23: set_value on trash/empty leaves Trash/files and Trash/info without
\* any entry when the data is exactly one of 1, 1\n, true, true\n, and
\* leaves the trash as it found it for any other data (and for the other
\* file of the module); an emptying write on a trash that is already empty
\* changes nothing. The count shown is not touched by the write itself.
C23_EmptiedIffExactData ==
    req.op = "set_value" =>
        LET call == calls[1]
        IN  /\ IF /\ call.inode = Trash_inode_empty
                  /\ call.data \in {"1", "1\n", "true", "true\n"}
               THEN /\ trash.files = <<>>
                    /\ trash.info = <<>>
                    /\ trash.count = call.found.count
               ELSE trash = call.found
            /\ (call.found.files = <<>> /\ call.found.info = <<>>) =>
                   trash = call.found

\* The write of "true\n" found directories within directories and files in
\* both places, and left nothing.
C23_Witness ==
    /\ req.op = "set_value"
    /\ calls[1].data = "true\n"
    /\ \E i \in 1..Len(calls[1].found.files) :
           /\ calls[1].found.files[i].is_dir
           /\ \E j \in 1..Len(calls[1].found.files[i].contents) :
                  calls[1].found.files[i].contents[j].is_dir
    /\ calls[1].found.info # <<>>
    /\ trash.files = <<>>
    /\ trash.info = <<>>

(***************************************************************************)
(* module.rs: one module's Thread driven through Module::start and         *)
(* Module::stop and by register_module, with the loop of its worker taken  *)
(* one statement at a time.                                                *)
(*                                                                         *)
(* A worker is [pc, status, held, signals, next]: where it is in the loop  *)
(* of Thread::start, what update() returned, the mutexes it holds ("data"  *)
(* is the Arc<Mutex<dyn Data>> given to start, "backend" the module's      *)
(* backend when that is another mutex), the messages waiting in its stop   *)
(* channel, and where it goes on once the rules it is executing are done.  *)
(* The calls into the Thread come one at a time: a module sits behind a    *)
(* mutex of its own.                                                       *)
(***************************************************************************)
MaxWorkers == 2    \* workers one Thread spawns at most

WorkerSamplers ==
    {CPU_MODULE_NAME, BATTERY_MODULE_NAME, BRIGHTNESS_MODULE_NAME,
     TRASH_MODULE_NAME}

\* What the probes of the cpu sampler report at one tick: the number of
\* logical cpus, the number of temperatures, and whether a measurement of
\* the load could be started.
CpuProbes ==
    {[cpus |-> cpus, temperatures |-> temperatures,
      cpu_load_ok |-> cpu_load_ok] :
        cpus \in {1, 2}, temperatures \in {0, 1}, cpu_load_ok \in BOOLEAN}

\* Rule files: none, rules on the battery and the trash that succeed, and
\* the same with a command that ends in ";".
WorkerFiles ==
    { <<>>,
      <<Trigger_new("U", "/battery/percent", "*", "*", "true"),
        Trigger_new("U", "/trash/count", "*", "*", "true")>>,
      <<Trigger_new("U", "/battery/percent", "*", "*", "true;"),
        Trigger_new("U", "/trash/count", "*", "*", "true;")>> }

NewWorker ==
    [pc |-> "top", status |-> "none", held |-> {}, signals |-> 0,
     next |-> "none"]

\* Whether a worker has left its loop, by a break or by a panic.
Left(worker) == worker.pc \in {"done", "panicked"}

InitWorker ==
    /\ triggers \in WorkerFiles
    /\ battery = BatteryData_new
    /\ hist = <<>>
    /\ fired = <<>>
    /\ dispatched = <<>>
    /\ config = NoModuleConfig
    /\ root = Root_new
    /\ inode_index = InodeIndexAfterNew
    /\ brightness = Brightness_new
    /\ sysfs \in SysfsChoices
    /\ trash = Trash_new
    /\ threads = [name \in ModuleNames |-> Thread_new]
    /\ events = <<>>
    /\ mounted = FALSE
    /\ aborted = FALSE
    /\ grafting = <<>>
    /\ req = Idle
    /\ reply = NoReply
    /\ calls = <<>>
    /\ execution = NoExecution
    /\ sampler \in WorkerSamplers
    /\ workers = <<>>
    /\ caller = NoCaller
    /\ callback = NoCallback
    /\ \E temperature \in BOOLEAN :
           cpu = [CpuBackend_new EXCEPT
                     !.temperature = temperature /\ sampler = CPU_MODULE_NAME]

\* What a step of the Thread's interface or of a worker leaves alone.
WorkerRest ==
    UNCHANGED <<hist, fired, config, root, mounted, aborted, grafting, req,
                reply, calls, sampler, triggers, callback>>

\* The rules the find_all_and_execute calls of one update() execute, in order.
RECURSIVE ExecutedBy(_)
ExecutedBy(calls_made) ==
    IF calls_made = <<>> THEN <<>>
    ELSE Head(calls_made).executed \o ExecutedBy(Tail(calls_made))

\* The worker i leaves its loop: the closure ends, and its end of the stop
\* channel with it.
Leave(i, pc) ==
    /\ workers' = [workers EXCEPT ![i].pc = pc, ![i].held = {},
                                  ![i].signals = 0]
    /\ threads' = [threads EXCEPT ![sampler].alive = @ - 1]

\* Top of the loop: data.lock(). A poisoned mutex (a worker panicked while
\* holding it) is an error, and the worker breaks.
WorkerLock ==
    /\ \E i \in 1..Len(workers) :
           /\ workers[i].pc = "top"
           /\ \A j \in 1..Len(workers) : "data" \notin workers[j].held
           /\ IF \E j \in 1..Len(workers) : workers[j].pc = "panicked"
              THEN Leave(i, "done")
              ELSE /\ workers' = [workers EXCEPT ![i].pc = "update",
                                                 ![i].held = {"data"}]
                   /\ UNCHANGED threads
    /\ WorkerRest
    /\ UNCHANGED <<cpu, battery, dispatched, inode_index, brightness, sysfs, trash,
                   events, execution, caller>>

\* update() has made its find_all_and_execute calls: with a rule to execute
\* the worker goes through execute() first, holding what it holds plus
\* locks; without, it goes straight on.
AfterUpdate(i, calls_made, locks, next, status) ==
    /\ dispatched' = calls_made
    /\ IF ExecutedBy(calls_made) # <<>>
       THEN /\ execution' = [NoExecution EXCEPT
                                !.state = "running",
                                !.rules = ExecutedBy(calls_made)]
            /\ workers' = [workers EXCEPT
                              ![i].pc = "executing",
                              ![i].held = @ \cup locks,
                              ![i].next = next,
                              ![i].status = status]
       ELSE /\ execution' = execution
            /\ workers' = [workers EXCEPT
                              ![i].pc = next,
                              ![i].held = IF next = "status" THEN {} ELSE @,
                              ![i].status = status]

\* data.update() of the battery: one sample; the rules run inside update(),
\* that is inside the scope of the data lock.
BatteryWorkerUpdate(i) ==
    /\ sampler = BATTERY_MODULE_NAME
    /\ \E sample \in FsBatterySamples :
           \E done \in {BatteryBackend_update(battery, triggers,
                            sample.on_ac_power, sample.battery_life)} :
               /\ battery' = done.data
               /\ AfterUpdate(i, done.events, {}, "status", done.status)
    /\ UNCHANGED <<cpu, inode_index, brightness, trash>>

\* data.update() of the trash: update_count, which executes the rules with
\* the backend locked, and then the watch loop; or the watcher cannot be
\* created and update() returns an error.
TrashWorkerUpdate(i) ==
    /\ sampler = TRASH_MODULE_NAME
    /\ \/ \E done \in {update_count(trash, triggers)} :
              /\ trash' = done.trash
              /\ AfterUpdate(i, done.events, {"backend"}, "watching", "none")
       \/ /\ AfterUpdate(i, <<>>, {}, "status", "Error")
          /\ UNCHANGED trash
    /\ UNCHANGED <<cpu, battery, inode_index, brightness>>

\* data.update() of the brightness: build_filesystem, and Changed when it
\* has built the entries; the watch loop otherwise.
BrightnessWorkerUpdate(i) ==
    /\ sampler = BRIGHTNESS_MODULE_NAME
    /\ inode_index + 4 * Len(sysfs) + 3 <= MaxInode
    /\ \E built \in {build_filesystem(brightness, sysfs, inode_index,
                                      triggers)} :
           IF built.status = "Changed"
           THEN /\ brightness' = built.brightness
                /\ inode_index' = built.inode_index
                /\ AfterUpdate(i, <<>>, {}, "status", "Changed")
           ELSE /\ AfterUpdate(i, <<>>, {}, "watching", "none")
                /\ UNCHANGED <<brightness, inode_index>>
    /\ UNCHANGED <<cpu, battery, trash>>

\* data.update() of the cpu: one tick on what the probes report. The rule
\* files of this specification hold no rule on the cpu.
CpuWorkerUpdate(i) ==
    /\ sampler = CPU_MODULE_NAME
    /\ \E probe \in CpuProbes :
           /\ \E done \in {CpuBackend_update(cpu, probe, inode_index)} :
                  /\ done.inode_index <= MaxInode
                  /\ cpu' = done.cpu
                  /\ inode_index' = done.inode_index
                  /\ AfterUpdate(i, <<>>, {}, "status", done.status)
    /\ UNCHANGED <<battery, brightness, trash>>

\* data.update() is called under the data lock.
WorkerUpdate ==
    /\ \E i \in 1..Len(workers) :
           /\ workers[i].pc = "update"
           /\ \/ CpuWorkerUpdate(i)
              \/ BatteryWorkerUpdate(i)
              \/ TrashWorkerUpdate(i)
              \/ BrightnessWorkerUpdate(i)
    /\ WorkerRest
    /\ UNCHANGED <<sysfs, threads, events, caller>>

\* The rules are done: update() goes on to where it was going, and the data
\* lock is released when it returns.
WorkerReturn ==
    /\ execution.state = "returned"
    /\ \E i \in 1..Len(workers) :
           /\ workers[i].pc = "executing"
           /\ workers' = [workers EXCEPT
                             ![i].pc = workers[i].next,
                             ![i].next = "none",
                             ![i].held = IF workers[i].next = "status"
                                         THEN {} ELSE {"data"}]
    /\ execution' = NoExecution
    /\ WorkerRest
    /\ UNCHANGED <<cpu, battery, dispatched, inode_index, brightness, sysfs, trash,
                   threads, events, caller>>

\* execute() panicked: the worker unwinds, its mutexes are poisoned.
WorkerPanic ==
    /\ execution.state = "panicked"
    /\ \E i \in 1..Len(workers) :
           /\ workers[i].pc = "executing"
           /\ Leave(i, "panicked")
    /\ execution' = NoExecution
    /\ WorkerRest
    /\ UNCHANGED <<cpu, battery, dispatched, inode_index, brightness, sysfs, trash,
                   events, caller>>

\* The watch loop of the trash: the environment drops a file, the watcher
\* reports it, and update_count runs again.
WorkerWatchEvent ==
    /\ sampler = TRASH_MODULE_NAME
    /\ Len(trash.files) < MaxTrashFiles
    /\ \E i \in 1..Len(workers) :
           /\ workers[i].pc = "watching"
           /\ \E done \in {update_count(
                               [trash EXCEPT
                                   !.files = Append(@, TrashFile("f")),
                                   !.info = Append(@, TrashFile("f.trashinfo"))],
                               triggers)} :
                  /\ trash' = done.trash
                  /\ AfterUpdate(i, done.events, {"backend"}, "watching",
                                 "none")
    /\ WorkerRest
    /\ UNCHANGED <<cpu, battery, inode_index, brightness, sysfs, threads, events,
                   caller>>

\* The watch loop is left by an error only: the watcher reports one, and
\* update() returns it.
WorkerWatchError ==
    /\ \E i \in 1..Len(workers) :
           /\ workers[i].pc = "watching"
           /\ workers' = [workers EXCEPT ![i].pc = "status",
                                         ![i].status = "Error",
                                         ![i].held = {}]
    /\ WorkerRest
    /\ UNCHANGED <<cpu, battery, dispatched, inode_index, brightness, sysfs, trash,
                   threads, events, execution, caller>>

\* A faulty variant of match_status: no break after the send.
match_status_without_break(status) ==
    [send |-> status = "Changed", pc |-> "check"]

\* A faulty variant of match_status: an error ends the loop.
match_status_break_on_error(status) ==
    IF status = "Changed" THEN [send |-> TRUE, pc |-> "done"]
    ELSE IF status = "Error" THEN [send |-> FALSE, pc |-> "done"]
    ELSE [send |-> FALSE, pc |-> "check"]

\* match status: Changed sends ModuleUpdated and breaks; anything else goes
\* on to the stop channel.
match_status(status) ==
    IF status = "Changed" THEN [send |-> TRUE, pc |-> "done"]
    ELSE [send |-> FALSE, pc |-> "check"]

\* The worker looks at what update() returned.
WorkerStatus ==
    /\ \E i \in 1..Len(workers) :
           /\ workers[i].pc = "status"
           /\ \E matched \in {match_status(workers[i].status)} :
                  /\ events' = IF matched.send THEN Append(events, sampler)
                               ELSE events
                  /\ IF matched.pc = "done"
                     THEN Leave(i, "done")
                     ELSE /\ workers' = [workers EXCEPT ![i].pc = matched.pc]
                          /\ UNCHANGED threads
    /\ WorkerRest
    /\ UNCHANGED <<cpu, battery, dispatched, inode_index, brightness, sysfs, trash,
                   execution, caller>>

\* A faulty variant of try_recv: the channel is always found empty.
try_recv_always_empty(signals) == FALSE

\* rx.try_recv(): whether it returns a message. The sender stays in the
\* Thread as long as the worker is in its loop, so the channel is never
\* found disconnected.
try_recv(signals) == signals > 0

\* rx.try_recv(): a message breaks the loop, an empty channel lets it sleep.
WorkerCheck ==
    /\ \E i \in 1..Len(workers) :
           /\ workers[i].pc = "check"
           /\ IF try_recv(workers[i].signals)
              THEN Leave(i, "done")
              ELSE /\ workers' = [workers EXCEPT ![i].pc = "sleep"]
                   /\ UNCHANGED threads
    /\ WorkerRest
    /\ UNCHANGED <<cpu, battery, dispatched, inode_index, brightness, sysfs, trash,
                   events, execution, caller>>

\* thread::sleep ends.
WorkerWake ==
    /\ \E i \in 1..Len(workers) :
           /\ workers[i].pc = "sleep"
           /\ workers' = [workers EXCEPT ![i].pc = "top"]
    /\ WorkerRest
    /\ UNCHANGED <<cpu, battery, dispatched, inode_index, brightness, sysfs, trash,
                   threads, events, execution, caller>>
\* Thread::start has spawned a worker: it is the newest one.
Spawned(started) ==
    started.thread.alive > threads[sampler].alive

\* Module::start, called with the timeout of some configuration by a thread
\* that has locked the module.
Start ==
    /\ caller.pc = "idle"
    /\ "module" \notin callback.held
    /\ Len(workers) < MaxWorkers
    /\ \E timeout_s \in {None, Some(1)} :
           \E started \in {Thread_start(threads[sampler], timeout_s)} :
               /\ threads' = [threads EXCEPT ![sampler] = started.thread]
               /\ workers' = IF Spawned(started)
                             THEN Append(workers, NewWorker) ELSE workers
               /\ caller' = [caller EXCEPT !.op = "start",
                                           !.ok = started.ok,
                                           !.joined = 0]
    /\ WorkerRest
    /\ UNCHANGED <<cpu, battery, dispatched, inode_index, brightness, sysfs, trash,
                   events, execution>>

\* Thread::stop up to the join, for the operation op of the caller: without
\* stopper it returns at once; the message is sent (a send to a worker that
\* has left fails and is ignored); without handle it returns; with one the
\* caller waits in join().
StopSend(op) ==
    LET t == threads[sampler]
        newest == Len(workers)
        after == IF op = "regraft" THEN "unregistered" ELSE "idle"
    IN  /\ workers' = IF t.stopper /\ ~Left(workers[newest])
                      THEN [workers EXCEPT ![newest].signals = @ + 1]
                      ELSE workers
        /\ caller' = IF t.stopper /\ t.handle
                     THEN [caller EXCEPT !.pc = "joining", !.op = op,
                                         !.joined = newest]
                     ELSE [caller EXCEPT !.pc = after, !.op = op,
                                         !.ok = TRUE, !.joined = 0]

\* Module::stop is called, by a thread that has locked the module.
Stop ==
    /\ caller.pc = "idle"
    /\ "module" \notin callback.held
    /\ StopSend("stop")
    /\ WorkerRest
    /\ UNCHANGED <<cpu, battery, dispatched, inode_index, brightness, sysfs, trash,
                   threads, events, execution>>

\* A faulty variant of join_returns: the caller does not wait.
join_returns_at_once(worker) == TRUE

\* handle.join() returns once the thread of the worker has ended.
join_returns(worker) == Left(worker)

\* handle.join() returns once the worker has left its loop: Ok stores false
\* in running, Err (the worker panicked) is returned as an error, which
\* makes register_module return too.
StopJoin ==
    /\ caller.pc = "joining"
    /\ join_returns(workers[caller.joined])
    /\ IF workers[caller.joined].pc = "panicked"
       THEN /\ threads' = [threads EXCEPT ![sampler].handle = FALSE]
            /\ caller' = [caller EXCEPT !.pc = "idle", !.ok = FALSE]
       ELSE /\ threads' = [threads EXCEPT
                              ![sampler] = Thread_stop(@).thread]
            /\ caller' = [caller EXCEPT
                             !.pc = IF caller.op = "regraft"
                                    THEN "unregistered" ELSE "idle",
                             !.ok = TRUE]
    /\ WorkerRest
    /\ UNCHANGED <<cpu, battery, dispatched, inode_index, brightness, sysfs, trash,
                   events, execution, workers>>

\* register_module is called for the module, enabled in the configuration:
\* by the event thread for a ModuleUpdated it takes off the bus, or by
\* Fs::init, with the backend locked; it locks the module and stops it.
RegraftBegin ==
    /\ caller.pc = "idle"
    /\ callback.held = {}
    /\ Len(workers) < MaxWorkers
    /\ events' = IF events # <<>> THEN Tail(events) ELSE events
    /\ StopSend("regraft")
    /\ WorkerRest
    /\ UNCHANGED <<cpu, battery, dispatched, inode_index, brightness, sysfs, trash,
                   threads, execution>>

\* register_module reads module.fs_entries() for the new directory.
RegraftRead ==
    /\ caller.pc = "unregistered"
    /\ caller' = [caller EXCEPT !.pc = "read",
                                !.snapshot = <<module_fs_entries(sampler)>>]
    /\ WorkerRest
    /\ UNCHANGED <<cpu, battery, dispatched, inode_index, brightness, sysfs, trash,
                   threads, events, execution, workers>>

\* register_module pushes the new directory on the root.
RegraftPush ==
    /\ caller.pc = "read"
    /\ caller' = [caller EXCEPT !.pc = "pushed", !.grafted = caller.snapshot]
    /\ WorkerRest
    /\ UNCHANGED <<cpu, battery, dispatched, inode_index, brightness, sysfs, trash,
                   threads, events, execution, workers>>

\* register_module starts the module again.
RegraftStart ==
    /\ caller.pc = "pushed"
    /\ \E started \in {Thread_start(threads[sampler], Some(1))} :
           /\ threads' = [threads EXCEPT ![sampler] = started.thread]
           /\ workers' = IF Spawned(started)
                         THEN Append(workers, NewWorker) ELSE workers
           /\ caller' = [caller EXCEPT !.pc = "idle", !.ok = started.ok,
                                       !.snapshot = <<>>]
    /\ WorkerRest
    /\ UNCHANGED <<cpu, battery, dispatched, inode_index, brightness, sysfs, trash,
                   events, execution>>

NextWorker ==
    \/ Start \/ Stop \/ StopJoin
    \/ RegraftBegin \/ RegraftRead \/ RegraftPush \/ RegraftStart
    \/ WorkerLock \/ WorkerUpdate \/ WorkerReturn \/ WorkerPanic
    \/ WorkerWatchEvent \/ WorkerWatchError
    \/ WorkerStatus \/ WorkerCheck \/ WorkerWake
    \/ ExecuteEnter \/ ExecuteSpawn \/ ExecuteWait

SpecWorker == InitWorker /\ [][NextWorker]_vars

\* The same with the threads scheduled: a worker that can take its next
\* statement takes it (update() returns, commands end, the sleep ends), and
\* so does the caller once join() can return or stop() has returned inside
\* register_module. A watch loop waits for the environment, and so do the
\* calls of start and stop: no fairness for them.
SpecWorkerFair ==
    /\ SpecWorker
    /\ WF_vars(WorkerLock) /\ WF_vars(WorkerUpdate) /\ WF_vars(WorkerReturn)
    /\ WF_vars(WorkerPanic) /\ WF_vars(WorkerStatus) /\ WF_vars(WorkerCheck)
    /\ WF_vars(WorkerWake)
    /\ WF_vars(ExecuteEnter) /\ WF_vars(ExecuteSpawn) /\ WF_vars(ExecuteWait)
    /\ WF_vars(StopJoin)
    /\ WF_vars(RegraftRead) /\ WF_vars(RegraftPush) /\ WF_vars(RegraftStart)

(***************************************************************************)
(* Properties of the Thread and its workers                                *)
(***************************************************************************)
\* C24: a worker whose update() has returned Changed does, as its next step,
\* send one ModuleUpdated of its module and leave its loop: it does not pass
\* by the stop channel, the sleep or update(); every ModuleUpdated put on
\* the bus is put there by such a step; and a worker that has left its loop
\* takes no further step, so that none sends a second event.
C24_ChangedSendsOnceAndLeaves ==
    [][\A i \in 1..Len(workers) :
           /\ (/\ workers[i].pc = "status"
               /\ workers[i].status = "Changed"
               /\ workers'[i].pc # workers[i].pc) =>
                  /\ events' = Append(events, sampler)
                  /\ workers'[i].pc = "done"
           /\ Left(workers[i]) => workers'[i] = workers[i]
           /\ Len(events') > Len(events) =>
                  /\ events' = Append(events, sampler)
                  /\ Cardinality({j \in 1..Len(workers) :
                         /\ workers[j].pc = "status"
                         /\ workers[j].status = "Changed"
                         /\ workers'[j].pc = "done"}) = 1]_vars

\* The brightness worker has sent its event and left; no other event is on
\* the bus.
C24_Witness ==
    /\ sampler = BRIGHTNESS_MODULE_NAME
    /\ events = <<BRIGHTNESS_MODULE_NAME>>
    /\ \E i \in 1..Len(workers) :
           workers[i].pc = "done" /\ workers[i].status = "Changed"

\* C25: while register_module is between the return of stop() and the call
\* of start(), no worker of the module is in its loop (the one there was has
\* been joined, the new one is not yet spawned), so no update() runs; the
\* entries read for the new directory are still what fs_entries() returns
\* when the directory is pushed and when the worker is started; and what is
\* pushed is what was read.
C25_RegraftSeesNoWorker ==
    /\ caller.pc \in {"unregistered", "read", "pushed"} =>
           \A i \in 1..Len(workers) : Left(workers[i])
    /\ caller.pc \in {"read", "pushed"} =>
           caller.snapshot = <<module_fs_entries(sampler)>>
    /\ caller.pc = "pushed" => caller.grafted = caller.snapshot

\* register_module has pushed the directory of the battery, whose worker had
\* sampled and was in its loop when stop() was called, and left it on the
\* message.
C25_Witness ==
    /\ caller.pc = "pushed"
    /\ caller.joined > 0
    /\ sampler = BATTERY_MODULE_NAME
    /\ workers[caller.joined].status = "Ok"
    /\ caller.grafted = <<Battery_fs_entries>>

\* C26: a call of update() that changes what the module's fs_entries()
\* returns comes back to the worker as Changed, also when a later step of
\* the same call has failed (and Changed makes the worker emit ModuleUpdated,
\* C24).
C26_ChangedEntriesAreReported ==
    [][\A i \in 1..Len(workers) :
           (/\ workers[i].pc = "update"
            /\ workers'[i].pc # "update"
            /\ module_fs_entries(sampler)' # module_fs_entries(sampler)) =>
               workers'[i].status = "Changed"]_vars

\* The cpu module runs without temperature configuration: its worker has
\* built the entries of the logical cpus, update() has returned the error of
\* update_physical, the worker is asleep for its next tick and no
\* ModuleUpdated has been sent.
C26_RebuiltWithoutChanged ==
    /\ sampler = CPU_MODULE_NAME
    /\ ~cpu.temperature
    /\ cpu.logical_fs_entries # <<>>
    /\ cpu.logical_list = Len(cpu.logical_fs_entries)
    /\ events = <<>>
    /\ Len(workers) = 1
    /\ workers[1].pc = "sleep"
    /\ workers[1].status = "Error"
    /\ caller = [NoCaller EXCEPT !.op = "start"]

\* stop() has returned Ok after joining a worker, and the module has not
\* been started since.
StopReturned ==
    /\ caller.joined > 0
    /\ caller.ok
    /\ \/ caller.op = "stop" /\ caller.pc = "idle"
       \/ caller.op = "regraft"
              /\ caller.pc \in {"unregistered", "read", "pushed"}

PeriodicSamplers == {CPU_MODULE_NAME, BATTERY_MODULE_NAME}

\* C27: a stop() that waits for the worker of a periodic sampler (cpu,
\* battery) returns in the end; once it has returned Ok the worker it
\* joined has left its loop and is_running() is false; and a worker that has
\* left its loop takes no step any more: no update(), no event.
C27_StopReturnsAndWorkerIsOver ==
    /\ (caller.pc = "joining" /\ sampler \in PeriodicSamplers)
           ~> (caller.pc # "joining")
    /\ [](StopReturned =>
              /\ workers[caller.joined].pc = "done"
              /\ ~threads[sampler].running)
    /\ [][\A i \in 1..Len(workers) :
              Left(workers[i]) =>
                  /\ workers'[i] = workers[i]
                  /\ Len(events') > Len(events) =>
                         \E j \in 1..Len(workers) :
                             j # i /\ workers[j].pc = "status"]_vars

\* stop() has returned from the join of a battery worker that had sampled
\* and found the message in its stop channel.
C27_Witness ==
    /\ sampler = BATTERY_MODULE_NAME
    /\ caller.op = "stop"
    /\ StopReturned
    /\ workers[caller.joined].status = "Ok"
    /\ battery.percent = "18"

EventDrivenSamplers == {TRASH_MODULE_NAME, BRIGHTNESS_MODULE_NAME}

\* C28: a stop() that waits for the worker of an event-driven sampler
\* (trash, brightness) returns in the end, whether or not a file-change
\* event arrives: the worker leaves its watch when the stop channel is
\* signalled.
C28_StopOfWatchingWorkerReturns ==
    (caller.pc = "joining" /\ sampler \in EventDrivenSamplers)
        ~> (caller.pc # "joining")

\* Module::stop has sent its message to the trash worker, which is in the
\* watch loop of update(), holding the data mutex, and waits in join().
C28_StopWaitsForWatchingWorker ==
    /\ sampler = TRASH_MODULE_NAME
    /\ caller.pc = "joining"
    /\ caller.op = "stop"
    /\ workers[caller.joined].pc = "watching"
    /\ workers[caller.joined].signals = 1
    /\ workers[caller.joined].held = {"data"}

\* The workers of the module that have not left their loop.
AliveWorkers == {i \in 1..Len(workers) : ~Left(workers[i])}

\* C29: in every reachable state at most one worker of the module is alive,
\* whatever the interleaving of start, stop, the handling of ModuleUpdated
\* and the workers leaving by themselves; the count kept with the Thread
\* is the number of these workers.
C29_AtMostOneWorkerAlive ==
    /\ Cardinality(AliveWorkers) <= 1
    /\ threads[sampler].alive = Cardinality(AliveWorkers)

\* A second worker was spawned after the first one left on Changed and was
\* joined by register_module; the second one is asleep between two samples.
C29_Witness ==
    /\ Len(workers) = 2
    /\ workers[1].pc = "done"
    /\ workers[1].status = "Changed"
    /\ workers[2].pc = "sleep"
    /\ AliveWorkers = {2}
    /\ caller.op = "regraft"

\* The workers that are inside find_all_and_execute while a command of a rule
\* has been spawned and its output is awaited.
ExecutingACommand ==
    {i \in 1..Len(workers) :
        workers[i].pc = "executing" /\ execution.child # <<>>}

\* C30: in every reachable state in which the command of a rule is being
\* executed, the thread that executes it holds no lock, neither the mutex
\* of the module's state nor the mutex of the tree store.
C30_CommandsRunOutsideAnyLock ==
    \A i \in ExecutingACommand : workers[i].held = {}

\* The battery worker waits for the output of a rule's command inside
\* update(), with the mutex of the module's data locked.
C30_CommandRunsUnderTheDataLock ==
    /\ sampler = BATTERY_MODULE_NAME
    /\ \E i \in ExecutingACommand :
           /\ workers[i].held = {"data"}
           /\ execution.child = <<"true">>
           /\ execution.log # <<>>

(***************************************************************************)
(* Lookup of a directory's own name                                        *)
(***************************************************************************)
\* The entries strictly below the entry parent resolves to that are named
\* name, in pre-order.
NamedBelow(parent, name) ==
    LET parent_entry == find(root, parent)
    IN  IF parent_entry = <<>> THEN <<>>
        ELSE SelectSeq(Tail(Flatten(parent_entry[1])),
                       LAMBDA e : e.name = name)

\* C40: a lookup never resolves to the entry of parent itself; when the name
\* is the parent directory's own name and nothing below it has that name,
\* the reply is ENOENT.
C40_LookupNeverResolvesToParent ==
    req.op = "lookup"
    => /\ reply.kind = "entry" => reply.body.ino # req.ino
       /\ \A parent_entry \in SeqRange(find(root, req.ino)) :
              (parent_entry.name = req.data
                   /\ NamedBelow(req.ino, req.data) = <<>>)
              => reply = ReplyError(ENOENT)

\* A module directory was asked for its own name, nothing below it has that
\* name, and the reply is the directory itself.
C40_DirectoryFoundInItself ==
    /\ req.op = "lookup"
    /\ req.ino # INODE_ROOT
    /\ req.data = BATTERY_MODULE_NAME
    /\ find(root, req.ino) # <<>>
    /\ find(root, req.ino)[1].name = BATTERY_MODULE_NAME
    /\ NamedBelow(req.ino, req.data) = <<>>
    /\ reply.kind = "entry"
    /\ reply.body.ino = req.ino
    /\ reply.body.kind = "Directory"

(***************************************************************************)
(* The frame of a regraft                                                  *)
(***************************************************************************)
\* The children of the root that are not the directory of the module name, in
\* the order of the root.
OtherDirs(name) == SelectSeq(root.fs_entries, LAMBDA e : e.name # name)

\* The Threads of the modules other than name.
OtherThreads(name) == [m \in ModuleNames \ {name} |-> threads[m]]

\* C33: handling ModuleUpdated(name) leaves every other module untouched:
\* their workers are neither stopped nor started and their directories
\* under the root keep their entries, their identifiers and their order;
\* only the directory of the named module is removed, and it is appended
\* again as the last child of the root.
C33_RegraftTouchesOneModule ==
    [][ /\ (events # <<>> /\ events' = Tail(events))
            => \E name \in {Head(events)} :
                   /\ OtherDirs(name)' = OtherDirs(name)
                   /\ OtherThreads(name)' = OtherThreads(name)
                   /\ grafting' # <<>> => root'.fs_entries = OtherDirs(name)
        /\ (grafting # <<>> /\ grafting' = <<>>)
            => \E name \in {grafting[1]} :
                   /\ OtherThreads(name)' = OtherThreads(name)
                   /\ Len(root'.fs_entries) = Len(root.fs_entries) + 1
                   /\ SubSeq(root'.fs_entries, 1, Len(root.fs_entries))
                          = root.fs_entries
                   /\ root'.fs_entries[Len(root'.fs_entries)].name = name
                   /\ OtherDirs(name)' = root.fs_entries ]_vars

\* The brightness has been grafted again: its directory, first at the
\* mount, is now the last child of the root, after the trash.
C33_Witness ==
    /\ mounted
    /\ grafting = <<>>
    /\ Len(root.fs_entries) = 2
    /\ root.fs_entries[1].name = TRASH_MODULE_NAME
    /\ root.fs_entries[2].name = BRIGHTNESS_MODULE_NAME
    /\ root.fs_entries[2].inode > root.fs_entries[1].inode

\* C35: when update() has returned an error the worker emits no event and
\* does not leave its loop for it: it goes on to the stop channel, which
\* alone can end it, sleeps, takes the data lock and samples again (the
\* status of the last tick stays with the worker until update() returns).
C35_ErrorTickGoesOn ==
    [][ \A i \in 1..Len(workers) :
            (workers[i].status = "Error" /\ workers'[i].pc # workers[i].pc)
            => /\ workers[i].pc = "status"
                   => workers'[i].pc = "check" /\ events' = events
               /\ workers[i].pc = "check"
                   => workers'[i].pc =
                          IF workers[i].signals > 0 THEN "done" ELSE "sleep"
               /\ workers[i].pc = "sleep" => workers'[i].pc = "top"
               /\ workers[i].pc = "top" => workers'[i].pc = "update" ]_vars

\* The cpu worker is inside update() again after a tick that ended with an
\* error, and nothing is on the bus.
C35_Witness ==
    /\ sampler = CPU_MODULE_NAME
    /\ workers # <<>>
    /\ workers[1].pc = "update"
    /\ workers[1].status = "Error"
    /\ workers[1].signals = 0
    /\ events = <<>>

\* C36: start() and stop() are idempotent. A start() on a module whose
\* worker is running spawns no second worker and returns success; a stop()
\* on a module that was never started, or that a stop() has already
\* stopped, returns success at once and changes nothing.
C36_StartAndStopAreIdempotent ==
    [][ /\ (Start /\ threads[sampler].running /\ AliveWorkers # {})
            => /\ workers' = workers
               /\ threads' = threads
               /\ caller'.ok
        /\ (Stop /\ ~threads[sampler].running)
            => /\ workers' = workers
               /\ threads' = threads
               /\ caller'.pc = "idle"
               /\ caller'.ok ]_vars

\* start() has returned success on a running worker: the one worker there is
\* was spawned by register_module (a worker spawned by start() before the
\* graft would have been joined, and one spawned after it by start() would
\* be the second), it is asleep, and the last call was a start().
C36_Witness ==
    /\ caller.op = "start"
    /\ caller.pc = "idle"
    /\ caller.ok
    /\ caller.grafted # <<>>
    /\ Len(workers) = 1
    /\ workers[1].pc = "sleep"
    /\ threads[sampler].alive = 1

\* Thread::is_running
is_running(t) == t.running

\* C37: in every reachable state is_running() is true exactly when a worker
\* of the module is alive, spawned and not yet over, also after the worker
\* has ended itself on Changed.
C37_RunningIffWorkerAlive ==
    is_running(threads[sampler]) <=> AliveWorkers # {}

\* The worker of the brightness has reported Changed and left its loop;
\* nobody has called stop(), and is_running() is still true.
C37_RunningAfterWorkerLeft ==
    /\ sampler = BRIGHTNESS_MODULE_NAME
    /\ Len(workers) = 1
    /\ workers[1].pc = "done"
    /\ workers[1].status = "Changed"
    /\ events = <<BRIGHTNESS_MODULE_NAME>>
    /\ caller.pc = "idle"
    /\ caller.op = "start"
    /\ AliveWorkers = {}
    /\ is_running(threads[sampler])

\* C38: a start() that fails because the configuration gives no timeout_s
\* leaves the Thread as it was: no worker is spawned and is_running() is
\* still false, so that a later start() with an interval spawns a worker.
C38_FailedStartChangesNothing ==
    [][ (Start /\ ~caller'.ok)
            => /\ workers' = workers
               /\ threads' = threads
               /\ ~is_running(threads'[sampler]) ]_vars

\* A start() has returned success on a Thread that never had a worker and
\* has none now: it followed a start() without timeout, found `running`
\* true and spawned nothing.
C38_StartAfterFailedStartSpawnsNothing ==
    /\ caller.op = "start"
    /\ caller.pc = "idle"
    /\ caller.ok
    /\ workers = <<>>
    /\ caller.grafted = <<>>
    /\ is_running(threads[sampler])
    /\ ~threads[sampler].handle
    /\ ~threads[sampler].stopper

\* The workers whose update() reported Changed.
ReportedChanged == {i \in 1..Len(workers) : workers[i].status = "Changed"}

\* C39: with a probe whose result does not change (the backlight directory
\* stays what it was at the start, empty or not), the module reports
\* Changed once at most: the worker restarted by the regraft reports no
\* further Changed, so regrafts come to an end.
C39_ChangedAtMostOnce ==
    sampler = BRIGHTNESS_MODULE_NAME => Cardinality(ReportedChanged) <= 1

\* No backlight device: the first worker reported Changed, register_module
\* joined it, grafted the empty directory and started a second worker,
\* which reported Changed again and put a second ModuleUpdated on the bus.
C39_ChangedAgainAfterRegraft ==
    /\ sampler = BRIGHTNESS_MODULE_NAME
    /\ sysfs = <<>>
    /\ brightness.fs_entries = <<>>
    /\ ReportedChanged = {1, 2}
    /\ workers[2].pc = "done"
    /\ caller.op = "regraft"
    /\ caller.pc = "idle"
    /\ caller.grafted = <<(<<>>)>>
    /\ events = <<BRIGHTNESS_MODULE_NAME>>

(***************************************************************************)
(* The events of a field, one after the other                              *)
(***************************************************************************)
\* The order in which update() samples the fields of the battery.
BatteryFieldOrder ==
    <<ENTRY_PLUGGED, ENTRY_PERCENT, ENTRY_TIME_REMAINING>>

\* Where a field comes in that order.
FieldIndex(name) ==
    CHOOSE k \in 1..Len(BatteryFieldOrder) : BatteryFieldOrder[k] = name

StateMutex(module) ==
    IF module \in {TRASH_MODULE_NAME, BRIGHTNESS_MODULE_NAME}
    THEN "backend" ELSE "data"

\* The mutexes the caller holds: register_module runs with the backend and
\* the module locked, Module::stop with the module locked, and both hold
\* the Thread while they wait in join().
CallerHeld ==
    IF caller.pc = "idle" THEN {}
    ELSE (IF caller.op = "regraft" THEN {"tree", "module"} ELSE {"module"})
             \cup (IF caller.pc = "joining" THEN {"thread"} ELSE {})

\* Whether lock() on the mutex returns at once.
Free(mutex) ==
    /\ mutex \notin CallerHeld
    /\ \A i \in 1..Len(workers) : mutex \notin workers[i].held

\* The entry of the module's directory a read finds for ino, <<>> if none:
\* the directory is in the tree once register_module has pushed it.
GraftedEntry(ino) ==
    IF caller.grafted = <<>> THEN <<>>
    ELSE find_in_children(caller.grafted[1], 1, ino)

\* A faulty variant of Fs_read_locks: the module is locked before the tree.
Fs_read_locks_module_first(ino) ==
    LET entry == GraftedEntry(ino)
    IN  IF entry = <<>> THEN <<"tree">>
        ELSE IF entry[1].write_only THEN <<"tree">>
        ELSE <<"module", "tree", StateMutex(sampler)>>

\* The mutexes Fs::read locks for ino, in order: the backend; then, for an
\* entry that is found and not write-only, the module that owns it
\* (find_module locks it for its search and read locks it again at once:
\* one acquisition here) and, inside value(), the module's state.
Fs_read_locks(ino) ==
    LET entry == GraftedEntry(ino)
    IN  IF entry = <<>> THEN <<"tree">>
        ELSE IF entry[1].write_only THEN <<"tree">>
        ELSE <<"tree", "module", StateMutex(sampler)>>

\* The file of the mounted tree a path names, INODE_INVALID when it names
\* none.
MountedFile(path) ==
    CASE path = "/mnt/battery/percent" -> Battery_inode_percent
      [] path = "/mnt/trash/count" -> Trash_inode_count
      [] OTHER -> INODE_INVALID

\* Rule files: rules whose command reads the file the rule is about, the
\* same with a command that reads nothing, and with one that ends in ";".
LockFiles ==
    { <<Trigger_new("U", "/battery/percent", "*", "*",
                    "cat /mnt/battery/percent"),
        Trigger_new("U", "/trash/count", "*", "*", "cat /mnt/trash/count")>>,
      <<Trigger_new("U", "/battery/percent", "*", "*", "true"),
        Trigger_new("U", "/trash/count", "*", "*", "true")>>,
      <<Trigger_new("U", "/battery/percent", "*", "*", "true;"),
        Trigger_new("U", "/trash/count", "*", "*", "true;")>> }

LockSamplers == {BATTERY_MODULE_NAME, TRASH_MODULE_NAME}

\* The identifiers a read coming from elsewhere carries: a field of each
\* module, the write-only file, and one no entry has.
LockInodes ==
    {Battery_inode_percent, Trash_inode_count, Trash_inode_empty,
     INODE_INVALID}

InitLocks ==
    /\ triggers \in LockFiles
    /\ battery = BatteryData_new
    /\ hist = <<>>
    /\ fired = <<>>
    /\ dispatched = <<>>
    /\ config = NoModuleConfig
    /\ root = Root_new
    /\ inode_index = InodeIndexAfterNew
    /\ brightness = Brightness_new
    /\ sysfs = <<>>
    /\ trash = Trash_new
    /\ threads = [name \in ModuleNames |-> Thread_new]
    /\ events = <<>>
    /\ mounted = FALSE
    /\ aborted = FALSE
    /\ grafting = <<>>
    /\ req = Idle
    /\ reply = NoReply
    /\ calls = <<>>
    /\ execution = NoExecution
    /\ sampler \in LockSamplers
    /\ workers = <<>>
    /\ caller = NoCaller
    /\ callback = NoCallback
    /\ cpu = CpuBackend_new

\* What a step of the callback leaves alone.
CallbackRest ==
    UNCHANGED <<trigger_vars, fs_vars, execution, sampler, workers, caller,
                cpu>>

\* Fs::read is called for a process that reads a file of the module.
ReadBegin ==
    /\ callback.pc = "idle"
    /\ \E ino \in LockInodes :
           callback' = [NoCallback EXCEPT !.pc = "locking",
                                          !.reader = "other", !.ino = ino]
    /\ CallbackRest

\* The child of execute() reads the file its argument names: Fs::read is
\* called for it.
ChildRead ==
    /\ callback.pc = "idle"
    /\ execution.child # <<>>
    /\ Command_reads(execution.child[1])
    /\ \E parsed_command \in
              {shellwords_split(execution.pieces[execution.piece])} :
           callback' = [NoCallback EXCEPT
                           !.pc = "locking",
                           !.reader = "child",
                           !.ino = IF Len(parsed_command.words) > 1
                                   THEN MountedFile(parsed_command.words[2])
                                   ELSE INODE_INVALID]
    /\ CallbackRest

\* Fs::read takes its next mutex, which is not its last one.
CallbackLock ==
    /\ callback.pc = "locking"
    /\ \E locks \in {Fs_read_locks(callback.ino)} :
           /\ Len(callback.plan) + 1 < Len(locks)
           /\ Free(locks[Len(callback.plan) + 1])
           /\ callback' = [callback EXCEPT
                              !.held = @ \cup {locks[Len(callback.plan) + 1]},
                              !.plan = Append(@, locks[Len(@) + 1])]
    /\ CallbackRest

\* Fs::read takes its last mutex, replies and returns, all guards dropped:
\* data when it has read the value, ENOENT when the entry is not found or
\* write-only. The reply of a read made for the child stays with the child
\* until it exits.
CallbackReply ==
    /\ callback.pc = "locking"
    /\ \E locks \in {Fs_read_locks(callback.ino)} :
           /\ Len(callback.plan) + 1 = Len(locks)
           /\ Free(locks[Len(locks)])
           /\ callback' =
                  IF callback.reader = "child"
                  THEN [callback EXCEPT
                           !.pc = "replied",
                           !.held = {},
                           !.plan = <<>>,
                           !.reply = IF Len(locks) > 1 THEN "data"
                                     ELSE "ENOENT"]
                  ELSE NoCallback
    /\ CallbackRest

NextLocks ==
    \/ NextWorker
    \/ ReadBegin \/ ChildRead \/ CallbackLock \/ CallbackReply

SpecLocks == InitLocks /\ [][NextLocks]_vars

\* The same with the threads scheduled as in SpecWorkerFair, and the session
\* loop with them: a callback that can take its next mutex takes it, and a
\* child that has been spawned makes its read.
SpecLocksFair ==
    /\ SpecLocks
    /\ WF_vars(WorkerLock) /\ WF_vars(WorkerUpdate) /\ WF_vars(WorkerReturn)
    /\ WF_vars(WorkerPanic) /\ WF_vars(WorkerStatus) /\ WF_vars(WorkerCheck)
    /\ WF_vars(WorkerWake)
    /\ WF_vars(ExecuteEnter) /\ WF_vars(ExecuteSpawn) /\ WF_vars(ExecuteWait)
    /\ WF_vars(StopJoin)
    /\ WF_vars(RegraftRead) /\ WF_vars(RegraftPush) /\ WF_vars(RegraftStart)
    /\ WF_vars(ChildRead) /\ WF_vars(CallbackLock) /\ WF_vars(CallbackReply)

\* The order of the mutexes: the tree store, the module, the data of the
\* worker, the backend behind a proxy, the Thread.
LockRank(mutex) ==
    CASE mutex = "tree" -> 1
      [] mutex = "module" -> 2
      [] mutex = "data" -> 3
      [] mutex = "backend" -> 4
      [] mutex = "thread" -> 5

\* Every lock() a thread is about to make or is blocked in, with what the
\* thread holds: the worker at the top of its loop (its data) and inside
\* the update of a proxy (the backend), the callback (the next mutex of
\* Fs::read), the event consumer before register_module (the tree store)
\* and the caller that stops the module (the Thread).
LockRequests ==
    {[held |-> workers[i].held, wants |-> "data"] :
        i \in {j \in 1..Len(workers) : workers[j].pc = "top"}}
    \cup {[held |-> workers[i].held, wants |-> "backend"] :
        i \in {j \in 1..Len(workers) :
                  /\ workers[j].pc = "watching"
                  /\ sampler \in EventDrivenSamplers}}
    \cup (IF callback.pc = "locking"
          THEN {[held |-> callback.held,
                 wants |-> Fs_read_locks(callback.ino)[Len(callback.plan) + 1]]}
          ELSE {})
    \cup (IF caller.pc = "idle" /\ events # <<>>
          THEN {[held |-> CallerHeld, wants |-> "tree"]}
          ELSE {})
    \cup (IF caller.pc = "pushed"
          THEN {[held |-> CallerHeld, wants |-> "thread"]}
          ELSE {})

\* C32: every thread requests its mutexes in the order tree store, module,
\* module state: whoever requests a mutex holds only mutexes that come
\* before it, and whoever requests the tree store holds nothing, so that
\* no cycle of lock waits can form.
C32_LocksTakenInOrder ==
    \A request \in LockRequests :
        /\ \A mutex \in request.held :
               LockRank(mutex) < LockRank(request.wants)
        /\ request.wants = "tree" => request.held = {}

\* A callback that holds the tree store and the module waits for the state
\* of the module, which the worker holds in its update.
C32_Witness ==
    /\ callback.pc = "locking"
    /\ callback.reader = "other"
    /\ callback.held = {"tree", "module"}
    /\ \E i \in 1..Len(workers) :
           /\ workers[i].pc = "update"
           /\ StateMutex(sampler) \in workers[i].held

\* C31: a command of a rule that reads a file of the module of the rule
\* through the mounted tree gets its reply, and the tick that launched it
\* ends: whenever the worker waits for such a child, it later leaves
\* execute().
C31_ReadingCommandCompletes ==
    (\E i \in 1..Len(workers) :
        /\ workers[i].pc = "executing"
        /\ execution.child # <<>>
        /\ Command_reads(execution.child[1]))
    ~> (\A i \in 1..Len(workers) : workers[i].pc # "executing")

\* The worker holds its data and waits for the child, the child waits for
\* the reply of its read, and the read, with the tree store and the module
\* locked, waits for the data of the worker.
C31_WorkerChildAndReadWaitForEachOther ==
    /\ \E i \in 1..Len(workers) :
           /\ workers[i].pc = "executing"
           /\ StateMutex(sampler) \in workers[i].held
    /\ execution.child # <<>>
    /\ Command_reads(execution.child[1])
    /\ callback.pc = "locking"
    /\ callback.reader = "child"
    /\ callback.held = {"tree", "module"}
    /\ ~ENABLED NextLocks

====
